---- MODULE Spec2Model ----
(***************************************************************************)
(* The streaming SEO pipeline of backend/services: the async generators    *)
(* InvestigationService.investigate and OptimizationService.optimize, the  *)
(* ranking analysis analyze_rankings they await, and the recommendation    *)
(* parser _parse_recommendations.                                          *)
(*                                                                         *)
(* Python strings are sequences of one-character strings.  A character     *)
(* outside ASCII is written by its code point ("U+2022").  A JSON value    *)
(* that may be a string or null is JStr(s) or JNull; an optional integer   *)
(* is Some(k) or None.                                                     *)
(***************************************************************************)
EXTENDS Integers, Sequences, FiniteSets, TLC

(* ------------------------------------------------------------------ *)
(* Bounds of the model                                                 *)
(* ------------------------------------------------------------------ *)

\* longest keyword list of a streamed request (the schema allows 1..10)
MaxKeywords == 2

\* longest keyword list handed to analyze_rankings when it is called directly
MaxDirectKeywords == 3

\* longest text, counted in tokens of TextTokens, handed to _parse_recommendations
MaxTokens == 4

\* longest keyword list handed to investigate or optimize when the generator is
\* made directly, not by the endpoint
MaxGeneratorKeywords == 1

(* ------------------------------------------------------------------ *)
(* Program constants                                                   *)
(* ------------------------------------------------------------------ *)

\* organic_results[:20]
RankScanLimit == 20

\* organic_results[:5]
CompetitorScanLimit == 5

\* list(all_competitors)[:10]
MaxCompetitors == 10

\* keywords: Field(..., min_length=1, max_length=10)
MinKeywordCount == 1

MaxKeywordCount == 10

\* location: Field(..., min_length=2, max_length=100)
MinLocationLen == 2

MaxLocationLen == 100

(* ------------------------------------------------------------------ *)
(* Values                                                              *)
(* ------------------------------------------------------------------ *)

None == <<>>

Some(k) == <<k>>

JNull == [t |-> "null"]

JStr(s) == [t |-> "str", v |-> s]

IsStr(j) == j.t = "str"

Min(a, b) == IF a <= b THEN a ELSE b

Range(s) == {s[i] : i \in 1..Len(s)}

\* s[:n]
Take(s, n) == SubSeq(s, 1, Min(n, Len(s)))

\* d.get(key, default)
DictGet(d, key, default) == IF key \in DOMAIN d THEN d[key] ELSE default

(* ------------------------------------------------------------------ *)
(* str methods                                                         *)
(* ------------------------------------------------------------------ *)

LowerChar(c) ==
    CASE c = "E" -> "e"
      [] c = "X" -> "x"
      [] OTHER -> c

\* str.lower()
Lower(s) == [i \in 1..Len(s) |-> LowerChar(s[i])]

\* sub in s
Contains(sub, s) ==
    \E i \in 0..(Len(s) - Len(sub)) : SubSeq(s, i + 1, i + Len(sub)) = sub

\* s.startswith(prefix)
StartsWith(s, prefix) ==
    /\ Len(prefix) <= Len(s)
    /\ SubSeq(s, 1, Len(prefix)) = prefix

Whitespace == {" ", "\n", "\t"}

Digits == {"0", "1", "2", "3", "4", "5", "6", "7", "8", "9"}

RECURSIVE LStripChars(_, _)
\* s.lstrip(chars)
LStripChars(s, chars) ==
    IF s # <<>> /\ s[1] \in chars THEN LStripChars(Tail(s), chars) ELSE s

RECURSIVE RStripChars(_, _)
\* s.rstrip(chars)
RStripChars(s, chars) ==
    IF s # <<>> /\ s[Len(s)] \in chars
    THEN RStripChars(SubSeq(s, 1, Len(s) - 1), chars)
    ELSE s

\* s.strip()
Strip(s) == RStripChars(LStripChars(s, Whitespace), Whitespace)

RECURSIVE SplitFrom(_, _, _)
\* the pieces of s after position i - 1, cur being the piece under construction
SplitFrom(s, i, cur) ==
    IF i > Len(s) THEN <<cur>>
    ELSE IF s[i] = "\n" THEN <<cur>> \o SplitFrom(s, i + 1, <<>>)
    ELSE SplitFrom(s, i + 1, Append(cur, s[i]))

\* s.split('\n')
SplitLines(s) == SplitFrom(s, 1, <<>>)

(* ------------------------------------------------------------------ *)
(* The search provider's answers                                       *)
(* ------------------------------------------------------------------ *)

\* str(request.url): the target URL, with a capital letter in it
Urls == {<<"e", "X">>}

Keywords == {"k1", "k2"}

\* links that contain "eX" whatever the case of their letters
LinkExact == <<"e", "x">>

LinkMixed == <<"w", "E", "x", "/">>

LinkUpper == <<"E", "X", "p">>

\* a link with the letters of "eX" in it, but not as a substring
LinkNear == <<"e", "y", "x">>

CompChars == <<"a", "b", "d", "f", "g", "h", "i", "j", "k", "l", "m", "n", "o", "p", "q">>

\* the j-th link of a page that belongs to nobody's target
Comp(j) == <<"c", CompChars[((j - 1) % Len(CompChars)) + 1]>>

\* one entry of organic_results
Res(link) == [link |-> JStr(link)]

ResNoLink == [title |-> "untitled"]

ResNullLink == [link |-> JNull]

\* five links of their own for each b
RespBlock(b) ==
    [organic_results |-> [i \in 1..CompetitorScanLimit |-> Res(Comp(CompetitorScanLimit * b + i))]]

\* link at position p of p + 1 entries
RespTargetAt(p, link) ==
    [organic_results |-> [i \in 1..(p + 1) |-> IF i = p THEN Res(link) ELSE Res(Comp(i))]]

RespNoOrganic == [error |-> "Invalid API key"]

RespEmpty == [organic_results |-> <<>>]

RespTwoMatches ==
    [organic_results |->
        <<Res(LinkNear), Res(LinkUpper), Res(Comp(1)), Res(LinkExact), ResNoLink, Res(Comp(2))>>]

RespRepeats ==
    [organic_results |->
        <<Res(Comp(1)), Res(Comp(1)), Res(Comp(2)), Res(Comp(2)), Res(Comp(3)), Res(LinkMixed)>>]

RespNullLink == [organic_results |-> <<Res(Comp(1)), ResNullLink, Res(LinkExact)>>]

RespNullAfterMatch == [organic_results |-> <<Res(LinkExact), ResNullLink, Res(Comp(4))>>]

\* the answers search.get_dict() gives a streamed run
StreamResponses ==
    {RespTargetAt(3, LinkExact), RespNoOrganic, RespNullLink}

\* the answers search.get_dict() gives a direct call of analyze_rankings
DirectResponses ==
    {RespBlock(0), RespBlock(1), RespBlock(2), RespNoOrganic, RespEmpty,
     RespTargetAt(3, LinkExact), RespTargetAt(RankScanLimit, LinkMixed),
     RespTargetAt(RankScanLimit + 1, LinkExact),
     RespTwoMatches, RespRepeats, RespNullLink, RespNullAfterMatch}

\* str(e) of what the provider or an agent run raises
SearchErrors == {"SerpAPI timeout"}

AgentErrors == {"OpenAI rate limit"}

AttributeErrorLower == "'NoneType' object has no attribute 'lower'"

AttributeErrorStrip == "'NoneType' object has no attribute 'strip'"

UnboundLocalResults == "cannot access local variable 'results' where it is not associated with a value"

(* ------------------------------------------------------------------ *)
(* analyze_rankings                                                    *)
(* ------------------------------------------------------------------ *)

\* url.lower() in result_url.lower()
MatchesTarget(url, link) == Contains(Lower(url), Lower(link))

RECURSIVE ScanRank(_, _, _)
\* for idx, result in enumerate(organic_results[:20], start=1): from idx on
ScanRank(url, rs, idx) ==
    IF idx > Len(rs) THEN [raised |-> FALSE, rank |-> None]
    ELSE LET result_url == DictGet(rs[idx], "link", JStr(<<>>))
         IN  IF ~IsStr(result_url) THEN [raised |-> TRUE, rank |-> None]
             ELSE IF MatchesTarget(url, result_url.v)
                  THEN [raised |-> FALSE, rank |-> Some(idx)]
                  ELSE ScanRank(url, rs, idx + 1)

\* a rank loop that takes an empty result list for a failure
FindRankNonEmpty(url, organic_results) ==
    IF organic_results = <<>> THEN [raised |-> TRUE, rank |-> None]
    ELSE ScanRank(url, Take(organic_results, RankScanLimit), 1)

\* the rank loop without the [:20]
FindRankNoLimit(url, organic_results) == ScanRank(url, organic_results, 1)

\* the rank loop of one keyword: the rank, or raised when a link is null
FindRank(url, organic_results) ==
    ScanRank(url, Take(organic_results, RankScanLimit), 1)

\* if competitor_url and url.lower() not in competitor_url.lower()
IsCompetitor(url, competitor_url) ==
    /\ IsStr(competitor_url)
    /\ competitor_url.v # <<>>
    /\ ~MatchesTarget(url, competitor_url.v)

\* the competitor loop without the [:5]
CollectCompetitorsAll(url, organic_results) ==
    LET top == organic_results
    IN  {DictGet(top[i], "link", JStr(<<>>)).v :
            i \in {j \in 1..Len(top) : IsCompetitor(url, DictGet(top[j], "link", JStr(<<>>)))}}

\* the links the competitor loop of one keyword adds to all_competitors
CollectCompetitors(url, organic_results) ==
    LET top == Take(organic_results, CompetitorScanLimit)
    IN  {DictGet(top[i], "link", JStr(<<>>)).v :
            i \in {j \in 1..Len(top) : IsCompetitor(url, DictGet(top[j], "link", JStr(<<>>)))}}

RECURSIVE SetToSeq(_)
SetToSeq(S) ==
    IF S = {} THEN <<>>
    ELSE LET x == CHOOSE y \in S : TRUE IN <<x>> \o SetToSeq(S \ {x})

Rotate(s, k) ==
    IF s = <<>> THEN <<>> ELSE [i \in 1..Len(s) |-> s[((i - 1 + k) % Len(s)) + 1]]

Reverse(s) == [i \in 1..Len(s) |-> s[Len(s) + 1 - i]]

\* the hash seeds of the process: each gives a set its own iteration order
HashSeeds == {0, 3, 10}

\* list(S): the elements of S, each once, in the order the seed gives
ListOfSet(S, seed) ==
    LET r == Rotate(SetToSeq(S), seed)
    IN  IF seed % 2 = 1 THEN Reverse(r) ELSE r

\* list(all_competitors) without the [:10]
TopCompetitorsAll(S, seed) == ListOfSet(S, seed)

\* list(all_competitors)[:10]
TopCompetitors(S, seed) == Take(ListOfSet(S, seed), MaxCompetitors)

\* the dict analyze_rankings returns
AnalysisData(rk, comps, seed, last) ==
    [rankings |-> rk, competitors |-> TopCompetitors(comps, seed), search_results |-> last]

(* ------------------------------------------------------------------ *)
(* State                                                               *)
(* ------------------------------------------------------------------ *)

\* the requests in flight, each with a service object and a generator of its own
Runs == {1, 2}

VARIABLES
    request,              \* the body of the HTTP request as the client sent it
    pc,                   \* where each run's coroutine is suspended
    service,              \* "investigate", "optimize", or "direct" for a bare analyze_rankings call
    url,                  \* str(request.url)
    keywords,             \* request.keywords
    task_id,              \* str(uuid4())
    events,               \* the strings the generator has yielded, in order
    trace,                \* what the run did, in order: calls, returns, raises, yields
    kwidx,                \* analyze_rankings: position in keywords of the keyword being searched
    rankings,             \* analyze_rankings: rankings
    all_competitors,      \* analyze_rankings: all_competitors
    results,              \* analyze_rankings: results, None while unbound
    analysis_data,        \* the dict analyze_rankings returned, None before
    investigation_result, \* investigation_result.final_output, None before
    analysis_result,      \* analysis_result.final_output, None before
    inputs,               \* the input each agent role was run with, by role
    p_service,            \* the service whose _parse_recommendations is called
    p_text,               \* its argument
    p_out,                \* what it returned, None before the call
    tool_call,            \* the last call of a fetch tool by the agent whose run is awaited
    response,             \* the HTTP response of a request that is not streamed
    delivered,            \* the strings event_generator has passed on to the response, in order
    users,                \* the rows of the users table that are committed
    session,              \* get_db's session of a request: its log and the rows as it sees them
    handled               \* what the handler of a users request returned or raised

reqVars == <<request, service, url, keywords, task_id>>

arVars == <<kwidx, rankings, all_competitors, results>>

agentVars == <<investigation_result, analysis_result, inputs>>

parseVars == <<p_service, p_text, p_out>>

ioVars == <<tool_call, response, delivered>>

userVars == <<users, session, handled>>

vars == <<pc, reqVars, events, trace, arVars, analysis_data, agentVars, parseVars, userVars, ioVars>>

Upd(f, r, v) == [f EXCEPT ![r] = v]

\* the lists of 1..n keywords
KeywordLists(lo, hi) == UNION {[1..n -> Keywords] : n \in lo..hi}

\* what uuid4() may give: as many ids as there are requests in flight
TaskIds ==
    LET ids == <<"uuid-a", "uuid-b">>
    IN  {ids[i] : i \in 1..Cardinality({q \in Runs : service[q] # "none"})}

Location == "Austin, TX"

Now == "utcnow"

(* ------------------------------------------------------------------ *)
(* Events                                                              *)
(* ------------------------------------------------------------------ *)

\* json.dumps(data)
JsonDumps(data) == [json |-> data]

\* the frame with one newline at its end: no blank line closes the event
FormatSSEOneNewline(data) == <<"data: ", JsonDumps(data), "\n">>

\* _format_sse: f"data: {json.dumps(data)}\n\n"
FormatSSE(data) == <<"data: ", JsonDumps(data), "\n\n">>

\* the dict inside a yielded string
Payload(sse) == sse[2].json

PendingEvent ==
    [status |-> "pending", message |-> <<"Starting SEO analysis...">>, progress |-> 0]

RankingsStartEvent(kws) ==
    [status |-> "analyzing",
     message |-> <<"Analyzing rankings for ", ToString(Len(kws)), " keywords...">>,
     progress |-> 20]

RankingsDoneEvent(ad) ==
    [status |-> "analyzing",
     message |-> <<"Rankings analyzed. Processing competitor data...">>,
     progress |-> 40,
     data |-> [rankings |-> ad.rankings, competitors |-> ad.competitors]]

\* investigate: step 3, optimize: step 3
AgentsStartEvent(svc) ==
    IF svc = "investigate"
    THEN [status |-> "analyzing",
          message |-> <<"Agent investigating target URL and competitors...">>,
          progress |-> 50]
    ELSE [status |-> "analyzing", message |-> <<"Running AI analysis...">>, progress |-> 60]

\* investigate: step 4
AnalysisStartEvent ==
    [status |-> "analyzing", message |-> <<"Running SEO analysis...">>, progress |-> 70]

\* the optimizing event with a progress below that of the event before it
OptimizingEventLow(svc) ==
    [status |-> "optimizing",
     message |-> <<"Generating optimization recommendations...">>,
     progress |-> IF svc = "investigate" THEN 65 ELSE 55]

\* the recommendations step announced under the status of the step before it
OptimizingEventAnalyzing(svc) ==
    [status |-> "analyzing",
     message |-> <<"Generating optimization recommendations...">>,
     progress |-> IF svc = "investigate" THEN 85 ELSE 80]

OptimizingEvent(svc) ==
    [status |-> "optimizing",
     message |-> <<"Generating optimization recommendations...">>,
     progress |-> IF svc = "investigate" THEN 85 ELSE 80]

\* the completed event with the ranks left out of current_rankings
CompletedEventBlankRanks(id, u, kws, ad, recs, analysis) ==
    [status |-> "completed",
     message |-> <<"Optimization complete!">>,
     progress |-> 100,
     data |-> [id |-> id, url |-> u, keywords |-> kws, location |-> Location,
               current_rankings |-> [k \in DOMAIN ad.rankings |-> None],
               competitors |-> ad.competitors,
               recommendations |-> recs, analysis |-> analysis,
               created_at |-> Now, completed_at |-> Now]]

CompletedEvent(id, u, kws, ad, recs, analysis) ==
    [status |-> "completed",
     message |-> <<"Optimization complete!">>,
     progress |-> 100,
     data |-> [id |-> id, url |-> u, keywords |-> kws, location |-> Location,
               current_rankings |-> ad.rankings, competitors |-> ad.competitors,
               recommendations |-> recs, analysis |-> analysis,
               created_at |-> Now, completed_at |-> Now]]

\* the failed event without str(e) in its message
FailedEventNoReason(e) ==
    [status |-> "failed", message |-> <<"Optimization failed">>, progress |-> 0]

\* except Exception as e
FailedEvent(e) ==
    [status |-> "failed", message |-> <<"Optimization failed: ", e>>, progress |-> 0]

(* ------------------------------------------------------------------ *)
(* _parse_recommendations                                              *)
(* ------------------------------------------------------------------ *)

\* the bullet literal of each service's source: U+2022 in optimization_service.py,
\* the three characters U+00E2 U+20AC U+00A2 in investigation_service.py
BulletLiteral(svc) ==
    IF svc = "investigate" THEN <<"U+00E2", "U+20AC", "U+00A2">> ELSE <<"U+2022">>

\* the argument of line.lstrip(...)
EnumeratorChars(svc) == Digits \cup {".", "-", ")", " "} \cup Range(BulletLiteral(svc))

\* line and (line[0].isdigit() or line.startswith('-') or line.startswith(bullet))
IsItemLine(svc, line) ==
    /\ line # <<>>
    /\ \/ line[1] \in Digits
       \/ StartsWith(line, <<"-">>)
       \/ StartsWith(line, BulletLiteral(svc))

\* line.lstrip('0123456789.-<bullet>) ').strip()
CleanItem(svc, line) == Strip(LStripChars(line, EnumeratorChars(svc)))

RECURSIVE CollectItemsKeepEmpty(_, _, _)
\* the for loop without its `if cleaned:`
CollectItemsKeepEmpty(svc, lines, i) ==
    IF i > Len(lines) THEN <<>>
    ELSE LET line == Strip(lines[i])
             rest == CollectItemsKeepEmpty(svc, lines, i + 1)
         IN  IF IsItemLine(svc, line)
             THEN <<CleanItem(svc, line)>> \o rest
             ELSE rest

RECURSIVE CollectItems(_, _, _)
\* the for loop over lines, from line i on
CollectItems(svc, lines, i) ==
    IF i > Len(lines) THEN <<>>
    ELSE LET line == Strip(lines[i])
             rest == CollectItems(svc, lines, i + 1)
         IN  IF IsItemLine(svc, line) /\ CleanItem(svc, line) # <<>>
             THEN <<CleanItem(svc, line)>> \o rest
             ELSE rest

\* return recommendations, with no fallback
OrFallbackNone(recommendations, text) == recommendations

\* recommendations if recommendations else [text.strip()]
OrFallbackTrimmed(recommendations, text) ==
    IF recommendations # <<>> THEN recommendations ELSE <<Strip(text)>>

\* recommendations if recommendations else [text]
OrFallback(recommendations, text) ==
    IF recommendations # <<>> THEN recommendations ELSE <<text>>

\* _parse_recommendations(text) of the service svc
ParseRecommendations(svc, text) ==
    OrFallback(CollectItems(svc, SplitLines(Strip(text)), 1), text)

\* what a text is made of
TextTokens ==
    {<<" ">>, <<"\n">>, <<"a">>, <<"1">>, <<".">>, <<"-">>, <<")">>,
     <<"U+2022">>, <<"U+00E2", "U+20AC", "U+00A2">>}

RECURSIVE TextsOf(_)
\* the texts of n tokens
TextsOf(n) ==
    IF n = 0 THEN {<<>>}
    ELSE {t \o k : t \in TextsOf(n - 1), k \in TextTokens}

\* the texts with a tab, the whitespace that strip() removes and lstrip(...) does
\* not, between two parts
TabbedTexts == {a \o <<"\t">> \o b : a \in TextsOf(MaxTokens - 3), b \in TextsOf(MaxTokens - 3)}

Texts == UNION {TextsOf(n) : n \in 0..MaxTokens} \cup TabbedTexts

(* ------------------------------------------------------------------ *)
(* The agents' answers                                                 *)
(* ------------------------------------------------------------------ *)

\* investigation_result.final_output
InvestigationOutputs == {JStr(<<"r", "1">>), JStr(<<"r", "2">>)}

\* analysis_result.final_output
AnalysisOutputs == {JStr(<<"i", "1">>), JStr(<<"i", "2">>)}

NumberedList == <<"1", ".", " ", "a", "\n", "2", ".", " ", "b", "\n">>

PlainAnswer == <<" ", "a", "\n">>

\* optimization_result.final_output: a numbered list, plain prose, or no text at all
OptimizationOutputs == {JStr(NumberedList), JStr(PlainAnswer), JNull}

(* ------------------------------------------------------------------ *)
(* The fetch tools: fetch_url_content, fetch_page_content              *)
(* ------------------------------------------------------------------ *)

\* text[:2000]
ContentLimit == 2000

RECURSIVE Join(_, _)
\* sep.join(pieces)
Join(pieces, sep) ==
    IF pieces = <<>> THEN <<>>
    ELSE IF Len(pieces) = 1 THEN pieces[1]
    ELSE pieces[1] \o sep \o Join(Tail(pieces), sep)

RECURSIVE SplitDouble(_, _, _)
\* s.split("  "): the pieces of s after position i - 1, cur under construction
SplitDouble(s, i, cur) ==
    IF i > Len(s) THEN <<cur>>
    ELSE IF i < Len(s) /\ s[i] = " " /\ s[i + 1] = " "
         THEN <<cur>> \o SplitDouble(s, i + 2, <<>>)
         ELSE SplitDouble(s, i + 1, Append(cur, s[i]))

RECURSIVE Flatten(_)
Flatten(ss) == IF ss = <<>> THEN <<>> ELSE ss[1] \o Flatten(Tail(ss))

\* the members of ss that are not empty, in order
SelectNonEmpty(ss) == SelectSeq(ss, LAMBDA x : x # <<>>)

\* an HTML page: its title and meta description, None when it has none, and the
\* elements of its body, each a tag and the text inside it
PageArticle ==
    [title |-> Some(<<"T">>), meta_description |-> Some(<<"D">>),
     body |-> <<[tag |-> "nav", text |-> <<"N">>],
                [tag |-> "script", text |-> <<"S">>],
                [tag |-> "p", text |-> <<" ", "P", " ", " ", "Q">>],
                [tag |-> "footer", text |-> <<"F">>]>>]

PageBare ==
    [title |-> None, meta_description |-> None,
     body |-> <<[tag |-> "header", text |-> <<"H">>],
                [tag |-> "style", text |-> <<"Y">>],
                [tag |-> "p", text |-> <<"R">>]>>]

Pages == {PageArticle, PageBare}

\* what requests.get(url, timeout=...) and the parser do for one call of a tool
FetchOutcomes ==
    {[kind |-> "raise", e |-> "ConnectionError: host unreachable"],
     [kind |-> "raise", e |-> "ReadTimeout: read timed out"],
     [kind |-> "status", e |-> "404 Client Error"],
     [kind |-> "unparsable", e |-> "ParserRejectedMarkup"]}
    \cup {[kind |-> "page", page |-> pg] : pg \in Pages}

\* the call did not get a page out of the URL
FetchFailed(outcome) == outcome.kind # "page"

\* the tags each tool decomposes
DecomposedTags(tool) ==
    IF tool = "fetch_url_content" THEN {"script", "style"}
    ELSE {"script", "style", "nav", "footer", "header"}

\* soup.get_text() after the decompose loop: the title and the texts of the
\* elements that are left, one to a line
GetText(tool, page) ==
    LET kept == SelectSeq(page.body, LAMBDA el : el.tag \notin DecomposedTags(tool))
        texts == [i \in 1..Len(kept) |-> kept[i].text]
    IN  Join((IF page.title = None THEN <<>> ELSE <<page.title[1]>>) \o texts, <<"\n">>)

\* the chunks: every line stripped, split at double spaces, every phrase stripped,
\* the empty ones left out
Chunks(text) ==
    LET lines == SplitLines(text)
        phrases == Flatten([i \in 1..Len(lines) |-> SplitDouble(Strip(lines[i]), 1, <<>>)])
    IN  SelectNonEmpty([i \in 1..Len(phrases) |-> Strip(phrases[i])])

\* the JSON text fetch_url_content returns for a page it got
UrlContentOf(u, page) ==
    LET text == Join(Chunks(GetText("fetch_url_content", page)), <<" ">>)
    IN  [json |->
            [url |-> u,
             title |-> IF page.title = None THEN <<"No title">> ELSE page.title[1],
             meta_description |-> IF page.meta_description = None
                                  THEN <<"No description">>
                                  ELSE page.meta_description[1],
             content |-> Take(text, ContentLimit),
             content_length |-> Len(text)]]

\* the tool without its except clause: the exception leaves the tool
FetchUrlContentNoCatch(u, outcome) ==
    IF FetchFailed(outcome) THEN [raised |-> outcome.e] ELSE UrlContentOf(u, outcome.page)

\* fetch_url_content(url): what it returns, the except clause included
FetchUrlContent(u, outcome) ==
    IF FetchFailed(outcome) THEN [json |-> [error |-> outcome.e, url |-> u]]
    ELSE UrlContentOf(u, outcome.page)

\* fetch_page_content(url): the text it returns, the except clause included
FetchPageContent(u, outcome) ==
    IF FetchFailed(outcome) THEN [text |-> <<"Error fetching page: ", outcome.e>>]
    ELSE [text |-> Join(Chunks(GetText("fetch_page_content", outcome.page)), <<"\n">>)]

\* the URLs an agent may hand a fetch tool: the target or a competitor's page
FetchTargets == Urls \cup {Comp(1)}

\* final_output of the page fetcher's agent, an agent with no output_type, whose
\* final output is the text of its last message: the page's text, a report of the
\* error, or the empty text
PageFetchOutputs ==
    {JStr(<<"R">>), JStr(<<"Error fetching page: ", "404 Client Error">>), JStr(<<>>)}

(* ------------------------------------------------------------------ *)
(* The generator: investigate / optimize                               *)
(* ------------------------------------------------------------------ *)

\* the entries of trace: what names the step, idx the keyword position of a search
\* or the position in events of a yield, arg the str(e) of a raise
Call(what, idx) == [op |-> "call", what |-> what, idx |-> idx, arg |-> ""]

Return(what, idx) == [op |-> "return", what |-> what, idx |-> idx, arg |-> ""]

Raise(what, idx, e) == [op |-> "raise", what |-> what, idx |-> idx, arg |-> e]

Emit(status, idx) == [op |-> "emit", what |-> status, idx |-> idx, arg |-> ""]

Cancel(at) == [op |-> "cancel", what |-> at, idx |-> 0, arg |-> ""]

\* a yield into a list that the runs share: every stream gets the string
YieldBroadcast(r, pre, ev, next) ==
    /\ events' = [q \in Runs |-> Append(events[q], FormatSSE(ev))]
    /\ trace' = Upd(trace, r,
                    (trace[r] \o pre)
                        \o <<Emit(ev.status, Len(events[r]) + 1)>>)
    /\ pc' = Upd(pc, r, next)

\* yield self._format_sse(ev), after the steps pre; the generator is suspended at next
Yield(r, pre, ev, next) ==
    /\ events' = Upd(events, r, Append(events[r], FormatSSE(ev)))
    /\ trace' = Upd(trace, r,
                    (trace[r] \o pre)
                        \o <<Emit(ev.status, Len(events[r]) + 1)>>)
    /\ pc' = Upd(pc, r, next)

\* no except clause: the exception ends the generator with no event
ThrowUncaught(r, pre, e) ==
    /\ pc' = Upd(pc, r, IF service[r] = "direct" THEN "raised" ELSE "done")
    /\ trace' = Upd(trace, r, trace[r] \o pre)
    /\ UNCHANGED events

\* an exception e leaves the try block: a bare call lets it through,
\* the generator's except clause yields the failed event
Throw(r, pre, e) ==
    IF service[r] = "direct"
    THEN /\ pc' = Upd(pc, r, "raised")
         /\ trace' = Upd(trace, r, trace[r] \o pre)
         /\ UNCHANGED events
    ELSE Yield(r, pre, FailedEvent(e), "y_failed")

\* no further yield: a step that only moves on, after the steps pre
Goto(r, pre, next) ==
    /\ pc' = Upd(pc, r, next)
    /\ trace' = Upd(trace, r, trace[r] \o pre)
    /\ UNCHANGED events

\* investigation_context: the f-string's fields
InvestigationContext(u, kws) ==
    [target_url |-> u, keywords |-> kws, location |-> Location]

\* analysis_context: investigate fills in the investigator's report, optimize the request
AnalysisContext(svc, u, kws, report, ad) ==
    IF svc = "investigate"
    THEN [investigation_report |-> report,
          rankings |-> ad.rankings, competitors |-> ad.competitors]
    ELSE [target_url |-> u, keywords |-> kws, location |-> Location,
          rankings |-> ad.rankings, competitors |-> ad.competitors]

\* the optimizer handed the investigator's report in the place of the analysis
OptimizationContextNoAnalysis(svc, report, insights) ==
    IF svc = "investigate"
    THEN [investigation_findings |-> report, analysis_insights |-> report]
    ELSE [analysis |-> JNull]

\* optimization_context
OptimizationContext(svc, report, insights) ==
    IF svc = "investigate"
    THEN [investigation_findings |-> report, analysis_insights |-> insights]
    ELSE [analysis |-> insights]

\* inputs[r] with the input of one more role
WithInput(r, role, input) ==
    Upd(inputs, r, [k \in DOMAIN inputs[r] \cup {role} |->
                       IF k = role THEN input ELSE inputs[r][k]])

\* the url field of a request body: one pydantic reads as an HttpUrl, whose str()
\* is str, or one it does not
RawUrls == {[kind |-> "http_url", str |-> u] : u \in Urls} \cup {[kind |-> "malformed"]}

\* eleven keywords
TooManyKeywords == [i \in 1..(MaxKeywordCount + 1) |-> "k1"]

\* the keyword lists a client may send: those of 1..MaxKeywords keywords, the empty
\* one, and one of more than ten
RawKeywordLists == KeywordLists(0, MaxKeywords) \cup {TooManyKeywords}

\* len(location)
LocationLen(loc) == IF loc = Location THEN 10 ELSE 1

RawLocations == {Location, "X"}

\* the bodies sent to POST /optimize
InvestigationRequests ==
    [url : RawUrls, keywords : RawKeywordLists, location : RawLocations]

\* the bodies sent to POST /page-fetcher
PageFetchRequests == [url : RawUrls]

\* InvestigationRequest without max_length on keywords
IsValidNoMax(svc, req) ==
    /\ req.url.kind = "http_url"
    /\ svc # "page_fetch" =>
          /\ Len(req.keywords) >= MinKeywordCount
          /\ LocationLen(req.location) \in MinLocationLen..MaxLocationLen

\* the body passes InvestigationRequest (PageFetchRequest for the page fetcher)
IsValid(svc, req) ==
    /\ req.url.kind = "http_url"
    /\ svc # "page_fetch" =>
          /\ Len(req.keywords) \in MinKeywordCount..MaxKeywordCount
          /\ LocationLen(req.location) \in MinLocationLen..MaxLocationLen

\* the 422 response FastAPI sends for a body that fails validation
Unprocessable == [status_code |-> 422, detail |-> <<"validation error">>]

\* the body is validated before the handler is called: an invalid one is answered
\* with 422 and the handler never runs; for a valid one the handler creates the
\* service and the generator, url=str(request.url), keywords=request.keywords
Validate(r) ==
    /\ pc[r] = "received"
    /\ IF IsValid(service[r], request[r])
       THEN /\ pc' = Upd(pc, r, IF service[r] = "page_fetch" THEN "pf_request" ELSE "start")
            /\ url' = Upd(url, r, request[r].url.str)
            /\ keywords' = Upd(keywords, r,
                               IF service[r] = "page_fetch" THEN <<>> ELSE request[r].keywords)
            /\ UNCHANGED response
       ELSE /\ pc' = Upd(pc, r, "rejected")
            /\ response' = Upd(response, r, Some(Unprocessable))
            /\ UNCHANGED <<url, keywords>>
    /\ UNCHANGED <<request, service, task_id, events, trace, arVars, analysis_data, agentVars,
                   parseVars, userVars, tool_call, delivered>>

\* the generator is suspended at a yield
AtYield(r) ==
    pc[r] \in {"y_pending", "y20", "y40", "y_agents", "y70", "y_opt", "y_completed", "y_failed"}

\* a generator that is driven by a task of its own and runs ahead of its consumer
TakenEager(r) == TRUE

\* event_generator has passed on every string the generator yielded and asks for
\* the next one
Taken(r) == Len(delivered[r]) = Len(events[r])

\* an event_generator that hands the response its newest string ahead of the others
RelayNewestFirst(r) ==
    /\ AtYield(r)
    /\ ~Taken(r)
    /\ delivered' = Upd(delivered, r, <<events[r][Len(events[r])]>> \o delivered[r])
    /\ UNCHANGED <<pc, reqVars, events, trace, arVars, analysis_data, agentVars, parseVars, userVars,
                   tool_call, response>>

\* async for event in service.investigate(...): yield event -- the string the
\* generator yielded is yielded on to the StreamingResponse
Relay(r) ==
    /\ AtYield(r)
    /\ ~Taken(r)
    /\ delivered' = Upd(delivered, r, Append(delivered[r], events[r][Len(delivered[r]) + 1]))
    /\ UNCHANGED <<pc, reqVars, events, trace, arVars, analysis_data, agentVars, parseVars, userVars,
                   tool_call, response>>

\* the first __anext__: task_id = str(uuid4()), then the pending event
Start(r) ==
    /\ pc[r] = "start"
    /\ \E id \in TaskIds \ {task_id[q] : q \in Runs} :
          task_id' = Upd(task_id, r, id)
    /\ Yield(r, <<>>, PendingEvent, "y_pending")
    /\ UNCHANGED <<request, service, url, keywords, arVars, analysis_data, agentVars, parseVars, userVars,
                   ioVars>>

\* resumed after the pending event: await asyncio.sleep(0.5)
ResumePending(r) ==
    /\ pc[r] = "y_pending"
    /\ Taken(r)
    /\ Goto(r, <<Call("sleep", 0)>>, "sleep")
    /\ UNCHANGED <<reqVars, arVars, analysis_data, agentVars, parseVars, userVars, ioVars>>

\* the sleep is over: the progress 20 event
SleepDone(r) ==
    /\ pc[r] = "sleep"
    /\ Yield(r, <<Return("sleep", 0)>>, RankingsStartEvent(keywords[r]), "y20")
    /\ UNCHANGED <<reqVars, arVars, analysis_data, agentVars, parseVars, userVars, ioVars>>

\* an analyze_rankings that binds results before its loop and returns the empty
\* result for an empty keyword list
EnterAnalyzeEmptyResult(r) ==
    /\ rankings' = Upd(rankings, r, <<>>)
    /\ all_competitors' = Upd(all_competitors, r, {})
    /\ UNCHANGED results
    /\ IF keywords[r] = <<>>
       THEN /\ IF service[r] = "direct"
               THEN Goto(r, <<Call("analyze_rankings", 0), Return("analyze_rankings", 0)>>,
                         "returned")
               ELSE Yield(r, <<Call("analyze_rankings", 0), Return("analyze_rankings", 0)>>,
                          RankingsDoneEvent(AnalysisData(<<>>, {}, 0, <<>>)), "y40")
            /\ UNCHANGED kwidx
       ELSE /\ Goto(r, <<Call("analyze_rankings", 0), Call("search", 1)>>, "search")
            /\ kwidx' = Upd(kwidx, r, 1)

\* analyze_rankings is entered: the first search, or, with no keyword, the return
\* statement, which reads the unbound local results
EnterAnalyze(r) ==
    /\ rankings' = Upd(rankings, r, <<>>)
    /\ all_competitors' = Upd(all_competitors, r, {})
    /\ UNCHANGED results
    /\ IF keywords[r] = <<>>
       THEN /\ Throw(r, <<Call("analyze_rankings", 0), Raise("analyze_rankings", 0, UnboundLocalResults)>>,
                     UnboundLocalResults)
            /\ UNCHANGED kwidx
       ELSE /\ Goto(r, <<Call("analyze_rankings", 0), Call("search", 1)>>, "search")
            /\ kwidx' = Upd(kwidx, r, 1)

\* resumed after the progress 20 event: await self.analyze_rankings(...)
Resume20(r) ==
    /\ pc[r] = "y20"
    /\ Taken(r)
    /\ EnterAnalyze(r)
    /\ UNCHANGED <<reqVars, analysis_data, agentVars, parseVars, userVars, ioVars>>

\* the answers the provider may give run r
Responses(r) == IF service[r] = "direct" THEN DirectResponses ELSE StreamResponses

\* the return statement inside the for loop: the first keyword is the last
MoreKeywordsNever(r) == FALSE

\* for keyword in keywords: another keyword follows keywords[kwidx]
MoreKeywords(r) == kwidx[r] < Len(keywords[r])

\* search_google returned resp for keywords[kwidx]: the rest of the loop body, then
\* the next search or, after the last keyword, the return and the progress 40 event
SearchReturn(r) ==
    /\ pc[r] = "search"
    /\ \E resp \in Responses(r) :
          LET keyword == keywords[r][kwidx[r]]
              organic_results == DictGet(resp, "organic_results", <<>>)
              found == FindRank(url[r], organic_results)
              rk == [k \in DOMAIN rankings[r] \cup {keyword} |->
                        IF k = keyword THEN found.rank ELSE rankings[r][k]]
              comps == all_competitors[r] \cup CollectCompetitors(url[r], organic_results)
              done == <<Return("search", kwidx[r])>>
          IN  IF found.raised
              THEN /\ Throw(r, done \o <<Raise("analyze_rankings", 0, AttributeErrorLower)>>,
                           AttributeErrorLower)
                   /\ results' = Upd(results, r, Some(resp))
                   /\ UNCHANGED <<kwidx, rankings, all_competitors, analysis_data>>
              ELSE /\ results' = Upd(results, r, Some(resp))
                   /\ rankings' = Upd(rankings, r, rk)
                   /\ all_competitors' = Upd(all_competitors, r, comps)
                   /\ IF MoreKeywords(r)
                      THEN /\ Goto(r, done \o <<Call("search", kwidx[r] + 1)>>, "search")
                           /\ kwidx' = Upd(kwidx, r, kwidx[r] + 1)
                           /\ UNCHANGED analysis_data
                      ELSE \E seed \in HashSeeds :
                              LET ad == AnalysisData(rk, comps, seed, resp)
                              IN  /\ analysis_data' = Upd(analysis_data, r, Some(ad))
                                  /\ UNCHANGED kwidx
                                  /\ IF service[r] = "direct"
                                     THEN Goto(r, done \o <<Return("analyze_rankings", 0)>>,
                                               "returned")
                                     ELSE Yield(r, done \o <<Return("analyze_rankings", 0)>>,
                                                RankingsDoneEvent(ad), "y40")
    /\ UNCHANGED <<reqVars, agentVars, parseVars, userVars, ioVars>>

\* a search that is tried again when the provider fails
SearchRaiseRetry(r) ==
    /\ pc[r] = "search"
    /\ Len(trace[r]) < 12
    /\ \E e \in SearchErrors :
          Goto(r, <<Raise("search", kwidx[r], e), Call("search", kwidx[r])>>, "search")
    /\ UNCHANGED <<reqVars, arVars, analysis_data, agentVars, parseVars, userVars, ioVars>>

\* search_google raised: the exception leaves analyze_rankings
SearchRaise(r) ==
    /\ pc[r] = "search"
    /\ \E e \in SearchErrors :
          Throw(r, <<Raise("search", kwidx[r], e), Raise("analyze_rankings", 0, e)>>, e)
    /\ UNCHANGED <<reqVars, arVars, analysis_data, agentVars, parseVars, userVars, ioVars>>

\* the yields of steps 3 and 4 swapped: the progress 70 event comes first
Resume40Swapped(r) ==
    /\ pc[r] = "y40"
    /\ Taken(r)
    /\ Yield(r, <<>>,
             IF service[r] = "investigate" THEN AnalysisStartEvent ELSE AgentsStartEvent(service[r]),
             "y_agents")
    /\ UNCHANGED <<reqVars, arVars, analysis_data, agentVars, parseVars, userVars, ioVars>>

\* resumed after the progress 40 event: the event that announces the agents
Resume40(r) ==
    /\ pc[r] = "y40"
    /\ Taken(r)
    /\ Yield(r, <<>>, AgentsStartEvent(service[r]), "y_agents")
    /\ UNCHANGED <<reqVars, arVars, analysis_data, agentVars, parseVars, userVars, ioVars>>

\* resumed after it: investigate awaits the investigator, optimize the analyzer
ResumeAgents(r) ==
    /\ pc[r] = "y_agents"
    /\ Taken(r)
    /\ IF service[r] = "investigate"
       THEN /\ Goto(r, <<Call("Investigation", 0)>>, "await_inv")
            /\ inputs' = WithInput(r, "Investigation", InvestigationContext(url[r], keywords[r]))
       ELSE /\ Goto(r, <<Call("Analysis", 0)>>, "await_ana")
            /\ inputs' = WithInput(r, "Analysis",
                                   AnalysisContext(service[r], url[r], keywords[r], JNull,
                                                   analysis_data[r][1]))
    /\ UNCHANGED <<reqVars, arVars, analysis_data, investigation_result, analysis_result,
                   parseVars, userVars, ioVars>>

\* Runner.run(agent=self.investigator_agent) returned: the progress 70 event
InvestigationReturn(r) ==
    /\ pc[r] = "await_inv"
    /\ \E out \in InvestigationOutputs :
          investigation_result' = Upd(investigation_result, r, Some(out))
    /\ Yield(r, <<Return("Investigation", 0)>>, AnalysisStartEvent, "y70")
    /\ tool_call' = Upd(tool_call, r, None)
    /\ UNCHANGED <<reqVars, arVars, analysis_data, analysis_result, inputs, parseVars, userVars, response, delivered>>

\* resumed after the progress 70 event: await the analyzer
Resume70(r) ==
    /\ pc[r] = "y70"
    /\ Taken(r)
    /\ Goto(r, <<Call("Analysis", 0)>>, "await_ana")
    /\ inputs' = WithInput(r, "Analysis",
                           AnalysisContext(service[r], url[r], keywords[r],
                                           investigation_result[r][1], analysis_data[r][1]))
    /\ UNCHANGED <<reqVars, arVars, analysis_data, investigation_result, analysis_result,
                   parseVars, userVars, ioVars>>

\* Runner.run(agent=self.analysis_agent) returned: the optimizing event
AnalysisReturn(r) ==
    /\ pc[r] = "await_ana"
    /\ \E out \in AnalysisOutputs :
          analysis_result' = Upd(analysis_result, r, Some(out))
    /\ Yield(r, <<Return("Analysis", 0)>>, OptimizingEvent(service[r]), "y_opt")
    /\ UNCHANGED <<reqVars, arVars, analysis_data, investigation_result, inputs, parseVars, userVars, ioVars>>

\* resumed after the optimizing event: await the optimizer
ResumeOptimizing(r) ==
    /\ pc[r] = "y_opt"
    /\ Taken(r)
    /\ Goto(r, <<Call("Optimization", 0)>>, "await_opt")
    /\ inputs' = WithInput(r, "Optimization",
                           OptimizationContext(service[r],
                                               IF service[r] = "investigate"
                                               THEN investigation_result[r][1] ELSE JNull,
                                               analysis_result[r][1]))
    /\ UNCHANGED <<reqVars, arVars, analysis_data, investigation_result, analysis_result,
                   parseVars, userVars, ioVars>>

\* Runner.run(agent=self.optimization_agent) returned: the recommendations are
\* parsed and the completed event is yielded
OptimizationReturn(r) ==
    /\ pc[r] = "await_opt"
    /\ \E out \in OptimizationOutputs :
          LET done == <<Return("Optimization", 0), Call("_parse_recommendations", 0)>>
          IN  IF ~IsStr(out)
              THEN Throw(r, done \o <<Raise("_parse_recommendations", 0, AttributeErrorStrip)>>,
                         AttributeErrorStrip)
              ELSE Yield(r, done \o <<Return("_parse_recommendations", 0)>>,
                         CompletedEvent(task_id[r], url[r], keywords[r], analysis_data[r][1],
                                        ParseRecommendations(service[r], out.v),
                                        analysis_result[r][1]),
                         "y_completed")
    /\ UNCHANGED <<reqVars, arVars, analysis_data, agentVars, parseVars, userVars, ioVars>>

\* Runner.run raised in the agent whose run is awaited
AgentRaise(r) ==
    /\ pc[r] \in {"await_inv", "await_ana", "await_opt"}
    /\ \E e \in AgentErrors :
          Throw(r,
                <<Raise(CASE pc[r] = "await_inv" -> "Investigation"
                          [] pc[r] = "await_ana" -> "Analysis"
                          [] OTHER -> "Optimization", 0, e)>>,
                e)
    /\ tool_call' = Upd(tool_call, r, None)
    /\ UNCHANGED <<reqVars, arVars, analysis_data, agentVars, parseVars, userVars, response, delivered>>

\* resumed after the completed or the failed event: the generator returns
ResumeTerminal(r) ==
    /\ pc[r] \in {"y_completed", "y_failed"}
    /\ Taken(r)
    /\ Goto(r, <<>>, "done")
    /\ UNCHANGED <<reqVars, arVars, analysis_data, agentVars, parseVars, userVars, ioVars>>

\* an except clause that catches the cancellation too: the closing of the stream
\* is turned into a failed event
DisconnectAsFailure(r) ==
    /\ service[r] \in {"investigate", "optimize"}
    /\ pc[r] \notin {"received", "rejected", "absent", "done", "cancelled"}
    /\ Yield(r, <<Cancel(pc[r])>>, FailedEvent("CancelledError"), "cancelled")
    /\ tool_call' = Upd(tool_call, r, None)
    /\ UNCHANGED <<reqVars, arVars, analysis_data, agentVars, parseVars, userVars, response, delivered>>

\* a pipeline started as a task of its own, which the closing of the stream does not reach
DisconnectDetached(r) ==
    /\ service[r] \in {"investigate", "optimize"}
    /\ pc[r] \notin {"received", "rejected", "absent", "done", "cancelled"}
    /\ \A i \in 1..Len(trace[r]) : trace[r][i].op # "cancel"
    /\ Goto(r, <<Cancel(pc[r])>>, pc[r])
    /\ tool_call' = Upd(tool_call, r, None)
    /\ UNCHANGED <<reqVars, arVars, analysis_data, agentVars, parseVars, userVars, response, delivered>>

\* the client goes away: the response task is cancelled and the generator closed;
\* CancelledError and GeneratorExit are not Exceptions, the except clause lets them pass
Disconnect(r) ==
    /\ service[r] \in {"investigate", "optimize"}
    /\ pc[r] \notin {"received", "rejected", "absent", "done", "cancelled"}
    /\ Goto(r, <<Cancel(pc[r])>>, "cancelled")
    /\ tool_call' = Upd(tool_call, r, None)
    /\ UNCHANGED <<reqVars, arVars, analysis_data, agentVars, parseVars, userVars, response, delivered>>

\* the tool the agent awaited at pc may call, "" when it has none
ToolOf(at) ==
    CASE at = "await_inv" -> "fetch_url_content"
      [] at = "await_fetch" -> "fetch_page_content"
      [] OTHER -> ""

\* what the tool returns to the agent
ToolReturn(tool, u, outcome) ==
    IF tool = "fetch_url_content" THEN FetchUrlContent(u, outcome) ELSE FetchPageContent(u, outcome)

\* while its run is awaited, the agent calls its fetch tool on a URL of its choice;
\* what the tool returns goes to the agent, not to the pipeline
ToolFetch(r) ==
    /\ ToolOf(pc[r]) # ""
    /\ \E u \in FetchTargets, outcome \in FetchOutcomes :
          tool_call' = Upd(tool_call, r,
                           Some([tool |-> ToolOf(pc[r]), url |-> u, outcome |-> outcome,
                                 out |-> ToolReturn(ToolOf(pc[r]), u, outcome)]))
    /\ UNCHANGED <<pc, reqVars, events, trace, arVars, analysis_data, agentVars, parseVars, userVars, response, delivered>>

\* POST /page-fetcher: service = PageFetcherService(), then fetch_page awaits
\* Runner.run(agent=self.agent, ...)
PageFetchCall(r) ==
    /\ pc[r] = "pf_request"
    /\ Goto(r, <<Call("fetch_page", 0), Call("PageFetcher", 0)>>, "await_fetch")
    /\ UNCHANGED <<reqVars, arVars, analysis_data, agentVars, parseVars, userVars, ioVars>>

\* HTTPException(status_code=500, detail=f"Failed to fetch page: {str(e)}")
ServerError(e) == [status_code |-> 500, detail |-> <<"Failed to fetch page: ", e>>]

ValidationErrorContent == "1 validation error for PageFetchResponse: content"

\* a fetch_page that looks at what its tool returned: status "error", and a 500 from
\* the endpoint, when the tool reported an error for the page
PageFetchReturnToolStatus(r) ==
    /\ pc[r] = "await_fetch"
    /\ \E out \in {o \in PageFetchOutputs : IsStr(o)} :
          LET failed == tool_call[r] # None /\ FetchFailed(tool_call[r][1].outcome)
              result == [url |-> url[r], content |-> out,
                         status |-> IF failed THEN "error" ELSE "success"]
              done == <<Return("PageFetcher", 0), Return("fetch_page", 0)>>
          IN  /\ response' = Upd(response, r,
                                 IF failed THEN Some(ServerError(tool_call[r][1].outcome.e))
                                 ELSE Some([status_code |-> 200,
                                            body |-> [url |-> result.url, content |-> out.v,
                                                      status |-> result.status]]))
              /\ Goto(r, done, "responded")
    /\ tool_call' = Upd(tool_call, r, None)
    /\ UNCHANGED <<reqVars, arVars, analysis_data, agentVars, parseVars, userVars, delivered>>

\* the agent's run returned: fetch_page returns its dict with status "success", and
\* the endpoint builds PageFetchResponse(**result), whose content must be a str
PageFetchReturn(r) ==
    /\ pc[r] = "await_fetch"
    /\ \E out \in PageFetchOutputs :
          LET result == [url |-> url[r], content |-> out, status |-> "success"]
              done == <<Return("PageFetcher", 0), Return("fetch_page", 0)>>
          IN  IF IsStr(out)
              THEN /\ response' = Upd(response, r,
                                      Some([status_code |-> 200,
                                            body |-> [url |-> result.url, content |-> out.v,
                                                      status |-> result.status]]))
                   /\ Goto(r, done, "responded")
              ELSE /\ response' = Upd(response, r, Some(ServerError(ValidationErrorContent)))
                   /\ Goto(r, done \o <<Raise("PageFetchResponse", 0, ValidationErrorContent)>>,
                           "responded")
    /\ tool_call' = Upd(tool_call, r, None)
    /\ UNCHANGED <<reqVars, arVars, analysis_data, agentVars, parseVars, userVars, delivered>>

\* the agent's run raised: except Exception in the endpoint
PageFetchRaise(r) ==
    /\ pc[r] = "await_fetch"
    /\ \E e \in AgentErrors :
          /\ response' = Upd(response, r, Some(ServerError(e)))
          /\ Goto(r, <<Raise("PageFetcher", 0, e), Raise("fetch_page", 0, e)>>, "responded")
    /\ tool_call' = Upd(tool_call, r, None)
    /\ UNCHANGED <<reqVars, arVars, analysis_data, agentVars, parseVars, userVars, delivered>>

\* a bare call of analyze_rankings(url, keywords, location, language)
DirectCall(r) ==
    /\ pc[r] = "call"
    /\ EnterAnalyze(r)
    /\ UNCHANGED <<reqVars, analysis_data, agentVars, parseVars, userVars, ioVars>>

\* a bare call of _parse_recommendations(text)
Parse ==
    /\ p_out = None
    /\ p_out' = Some(ParseRecommendations(p_service, p_text))
    /\ UNCHANGED <<pc, reqVars, events, trace, arVars, analysis_data, agentVars, p_service, p_text, ioVars,
                   userVars>>

(* ------------------------------------------------------------------ *)
(* The user store                                                      *)
(* ------------------------------------------------------------------ *)

Emails == {"a@x", "b@x", "c@x"}

UserIds == {1, 2, 3}

\* a row of the users table, as far as the operations below read or write it
UserRow(i, e, active) == [id |-> i, email |-> e, is_active |-> active]

\* the tables a request can find: no row, one row or two, with distinct ids and emails
StoredUsers == SUBSET {UserRow(1, "a@x", TRUE), UserRow(2, "b@x", TRUE)}

\* the bodies of POST /users, PATCH /users/{user_id} and DELETE /users/{user_id}
\* that passed validation
UserRequests ==
    [op : {"create"}, email : Emails]
    \cup [op : {"update"}, user_id : UserIds, email : {None} \cup {Some(e) : e \in Emails},
          is_active : {None, Some(FALSE)}]
    \cup [op : {"delete"}, user_id : UserIds]

\* the unique constraint on users.email: a flush that would leave two rows with one
\* email raises IntegrityError
EmailTaken(rows, i, e) == \E u \in rows : u.email = e /\ u.id # i

\* the id the table gives a new row
NewId(rows) == IF rows = {} THEN 1 ELSE 1 + CHOOSE m \in {u.id : u \in rows} : \A u \in rows : u.id <= m

\* async_session_maker(): a session on the committed rows, nothing done yet; base
\* keeps the rows its transaction began with
OpenSession(rows) == [log |-> <<>>, base |-> rows, rows |-> rows]

Did(s, ops) == [s EXCEPT !.log = s.log \o ops]

\* session.rollback(): what was flushed and not committed is gone
Rollback(s) == [Did(s, <<"rollback">>) EXCEPT !.rows = s.base]

Returned(v) == [kind |-> "returned", value |-> v]

Raised(e) == [kind |-> "raised", exc |-> e]

\* get_by_id: the row or None
GetById(s, i) ==
    IF \E u \in s.rows : u.id = i
    THEN Some(CHOOSE u \in s.rows : u.id = i)
    ELSE None

\* create without its except clause: the IntegrityError of the flush leaves the method
CreateNoCatch(s, e) ==
    IF EmailTaken(s.rows, 0, e)
    THEN [session |-> Did(s, <<"add", "flush">>), out |-> Raised("IntegrityError")]
    ELSE LET user == UserRow(NewId(s.rows), e, TRUE)
         IN [session |-> [Did(s, <<"add", "flush", "refresh">>) EXCEPT !.rows = s.rows \cup {user}],
             out |-> Returned(Some(user))]

\* UserService.create: add, flush, refresh and return the user; the IntegrityError of
\* the flush is caught, the session rolled back and None returned
Create(s, e) ==
    IF EmailTaken(s.rows, 0, e)
    THEN [session |-> Rollback(Did(s, <<"add", "flush">>)), out |-> Returned(None)]
    ELSE LET user == UserRow(NewId(s.rows), e, TRUE)
         IN [session |-> [Did(s, <<"add", "flush", "refresh">>) EXCEPT !.rows = s.rows \cup {user}],
             out |-> Returned(Some(user))]

\* UserService.update: None for an unknown id; else the fields that were given are
\* set and flushed, and nothing catches what the flush raises
Update(s, req) ==
    LET found == GetById(s, req.user_id)
        s1 == Did(s, <<"execute">>)
    IN IF found = None
       THEN [session |-> s1, out |-> Returned(None)]
       ELSE LET old == found[1]
                user == [old EXCEPT
                           !.email = IF req.email # None THEN req.email[1] ELSE @,
                           !.is_active = IF req.is_active # None THEN req.is_active[1] ELSE @]
            IN IF EmailTaken(s.rows, user.id, user.email)
               THEN [session |-> Did(s1, <<"flush">>), out |-> Raised("IntegrityError")]
               ELSE [session |-> [Did(s1, <<"flush", "refresh">>) EXCEPT
                                     !.rows = (s.rows \ {old}) \cup {user}],
                     out |-> Returned(Some(user))]

\* UserService.delete: False for an unknown id, else the row is deleted and flushed
Delete(s, i) ==
    LET found == GetById(s, i)
        s1 == Did(s, <<"execute">>)
    IN IF found = None
       THEN [session |-> s1, out |-> Returned(FALSE)]
       ELSE [session |-> [Did(s1, <<"delete", "flush">>) EXCEPT !.rows = s.rows \ {found[1]}],
             out |-> Returned(TRUE)]

\* what a handler makes of its service's answer: an exception of the service leaves
\* the handler as it is, the value `missing` becomes the HTTPException, any other
\* value the response
Answer(res, missing, error, ok, body) ==
    [session |-> res.session,
     out |-> IF res.out.kind = "raised"
             THEN [kind |-> "raised", exc |-> res.out.exc, result |-> res.out]
             ELSE IF res.out.value = missing
             THEN [kind |-> "raised", exc |-> "HTTPException", status_code |-> error,
                   result |-> res.out]
             ELSE [kind |-> "returned", status_code |-> ok, body |-> body, result |-> res.out]]

\* create_user: 400 when create returned None, else 201 with the user
CreateUser(s, req) ==
    LET res == Create(s, req.email)
    IN Answer(res, None, 400, 201, IF res.out.kind = "returned" THEN res.out.value ELSE None)

\* update_user: 404 when update returned None, else 200 with the user
UpdateUser(s, req) ==
    LET res == Update(s, req)
    IN Answer(res, None, 404, 200, IF res.out.kind = "returned" THEN res.out.value ELSE None)

\* delete_user: 404 when delete returned False, else 204 and no body
DeleteUser(s, req) == Answer(Delete(s, req.user_id), FALSE, 404, 204, None)

\* get_db up to its yield and the handler called with the session: the whole handler,
\* what it returns or raises is kept for the part of get_db after the yield
UserHandler(r) ==
    /\ pc[r] = "u_request"
    /\ LET s == OpenSession(users)
           req == request[r]
           done == CASE req.op = "create" -> CreateUser(s, req)
                     [] req.op = "update" -> UpdateUser(s, req)
                     [] req.op = "delete" -> DeleteUser(s, req)
       IN /\ session' = Upd(session, r, Some(done.session))
          /\ handled' = Upd(handled, r, Some(done.out))
    /\ pc' = Upd(pc, r, "u_handled")
    /\ UNCHANGED <<reqVars, events, trace, arVars, analysis_data, agentVars, parseVars,
                   ioVars, users>>

\* the response of an exception that left the handler: an HTTPException carries its
\* status, anything else is the server's fault
ErrorResponse(out) ==
    IF out.exc = "HTTPException"
    THEN [status_code |-> out.status_code, detail |-> out.exc]
    ELSE [status_code |-> 500, detail |-> out.exc]

\* get_db after its yield, the handler having returned: commit, and close in the
\* finally; a commit that raises is rolled back and raised again
SessionCommit(r) ==
    /\ pc[r] = "u_handled"
    /\ handled[r][1].kind = "returned"
    /\ LET s == session[r][1]
           out == handled[r][1]
       IN \/ /\ users' = s.rows
             /\ session' = Upd(session, r, Some(Did(s, <<"commit", "close">>)))
             /\ response' = Upd(response, r,
                    Some([status_code |-> out.status_code, body |-> out.body]))
          \/ /\ users' = users
             /\ session' = Upd(session, r, Some(Did(Rollback(Did(s, <<"commit">>)), <<"close">>)))
             /\ response' = Upd(response, r,
                    Some(ErrorResponse(Raised("OperationalError"))))
    /\ pc' = Upd(pc, r, "u_done")
    /\ UNCHANGED <<reqVars, events, trace, arVars, analysis_data, agentVars, parseVars,
                   tool_call, delivered, handled>>

\* a get_db that commits in its finally clause, whatever the handler did
SessionRollbackCommits(r) ==
    /\ pc[r] = "u_handled"
    /\ handled[r][1].kind = "raised"
    /\ users' = session[r][1].rows
    /\ session' = Upd(session, r, Some(Did(session[r][1], <<"commit", "close">>)))
    /\ response' = Upd(response, r, Some(ErrorResponse(handled[r][1])))
    /\ pc' = Upd(pc, r, "u_done")
    /\ UNCHANGED <<reqVars, events, trace, arVars, analysis_data, agentVars, parseVars,
                   tool_call, delivered, handled>>

\* get_db after its yield, the handler having raised: the exception arrives at the
\* yield, the session is rolled back, the exception raised again, the session closed
SessionRollback(r) ==
    /\ pc[r] = "u_handled"
    /\ handled[r][1].kind = "raised"
    /\ session' = Upd(session, r, Some(Did(Rollback(session[r][1]), <<"close">>)))
    /\ response' = Upd(response, r, Some(ErrorResponse(handled[r][1])))
    /\ pc' = Upd(pc, r, "u_done")
    /\ UNCHANGED <<reqVars, events, trace, arVars, analysis_data, agentVars, parseVars,
                   tool_call, delivered, users, handled>>

(* ------------------------------------------------------------------ *)
(* Specifications                                                      *)
(* ------------------------------------------------------------------ *)

\* the locals of a coroutine that has not run yet
Fresh ==
    /\ task_id = [r \in Runs |-> ""]
    /\ events = [r \in Runs |-> <<>>]
    /\ trace = [r \in Runs |-> <<>>]
    /\ kwidx = [r \in Runs |-> 0]
    /\ rankings = [r \in Runs |-> <<>>]
    /\ all_competitors = [r \in Runs |-> {}]
    /\ results = [r \in Runs |-> None]
    /\ analysis_data = [r \in Runs |-> None]
    /\ investigation_result = [r \in Runs |-> None]
    /\ analysis_result = [r \in Runs |-> None]
    /\ inputs = [r \in Runs |-> <<>>]
    /\ tool_call = [r \in Runs |-> None]
    /\ response = [r \in Runs |-> None]
    /\ delivered = [r \in Runs |-> <<>>]
    /\ session = [r \in Runs |-> None]
    /\ handled = [r \in Runs |-> None]

NoParse ==
    /\ p_service = "optimize"
    /\ p_text = <<>>
    /\ p_out = None

\* one request has arrived: a body for the streamed pipeline (investigate or
\* optimize) or one for the page fetcher's endpoint, valid or not
Init ==
    /\ users = {}
    /\ \/ \E svc \in {"investigate", "optimize"}, req \in InvestigationRequests :
             /\ request = [r \in Runs |-> IF r = 1 THEN req ELSE None]
             /\ service = [r \in Runs |-> IF r = 1 THEN svc ELSE "none"]
       \/ \E req \in PageFetchRequests :
             /\ request = [r \in Runs |-> IF r = 1 THEN req ELSE None]
             /\ service = [r \in Runs |-> IF r = 1 THEN "page_fetch" ELSE "none"]
    /\ pc = [r \in Runs |-> IF r = 1 THEN "received" ELSE "absent"]
    /\ url = [r \in Runs |-> <<>>]
    /\ keywords = [r \in Runs |-> <<>>]
    /\ Fresh
    /\ NoParse

Next ==
    \E r \in Runs :
        \/ Validate(r)
        \/ Start(r)
        \/ ResumePending(r)
        \/ SleepDone(r)
        \/ Resume20(r)
        \/ SearchReturn(r)
        \/ SearchRaise(r)
        \/ Resume40(r)
        \/ ResumeAgents(r)
        \/ InvestigationReturn(r)
        \/ Resume70(r)
        \/ AnalysisReturn(r)
        \/ ResumeOptimizing(r)
        \/ OptimizationReturn(r)
        \/ AgentRaise(r)
        \/ ResumeTerminal(r)
        \/ Relay(r)
        \/ Disconnect(r)
        \/ ToolFetch(r)
        \/ PageFetchCall(r)
        \/ PageFetchReturn(r)
        \/ PageFetchRaise(r)

Spec == Init /\ [][Next]_vars

\* a step of run r other than the closing of its stream and the agents' tool calls
Step(r) ==
    \/ Validate(r)
    \/ Start(r)
    \/ ResumePending(r)
    \/ SleepDone(r)
    \/ Resume20(r)
    \/ SearchReturn(r)
    \/ SearchRaise(r)
    \/ Resume40(r)
    \/ ResumeAgents(r)
    \/ InvestigationReturn(r)
    \/ Resume70(r)
    \/ AnalysisReturn(r)
    \/ ResumeOptimizing(r)
    \/ OptimizationReturn(r)
    \/ AgentRaise(r)
    \/ ResumeTerminal(r)
    \/ Relay(r)
    \/ PageFetchCall(r)
    \/ PageFetchReturn(r)
    \/ PageFetchRaise(r)

NextLive == \E r \in Runs : Step(r) \/ ToolFetch(r)

\* the requests of Spec with a client that stays and reads to the end, a provider and
\* agents that answer or fail in the end, and an event loop that resumes what can run:
\* a run that can take a step takes one
SpecLive == Init /\ [][NextLive]_vars /\ \A r \in Runs : WF_vars(Step(r))

\* analyze_rankings called on its own, with any keyword list, the empty one too
InitDirect ==
    /\ users = {}
    /\ request = [r \in Runs |-> None]
    /\ \E u \in Urls, kws \in KeywordLists(0, MaxDirectKeywords) :
          /\ pc = [r \in Runs |-> IF r = 1 THEN "call" ELSE "absent"]
          /\ service = [r \in Runs |-> IF r = 1 THEN "direct" ELSE "none"]
          /\ url = [r \in Runs |-> IF r = 1 THEN u ELSE <<>>]
          /\ keywords = [r \in Runs |-> IF r = 1 THEN kws ELSE <<>>]
    /\ Fresh
    /\ NoParse

NextDirect ==
    \E r \in Runs :
        \/ DirectCall(r)
        \/ SearchReturn(r)
        \/ SearchRaise(r)

SpecDirect == InitDirect /\ [][NextDirect]_vars

\* _parse_recommendations called on its own, in either service
InitParse ==
    /\ users = {}
    /\ request = [r \in Runs |-> None]
    /\ pc = [r \in Runs |-> "absent"]
    /\ service = [r \in Runs |-> "none"]
    /\ url = [r \in Runs |-> <<>>]
    /\ keywords = [r \in Runs |-> <<>>]
    /\ Fresh
    /\ p_service \in {"investigate", "optimize"}
    /\ p_text \in Texts
    /\ p_out = None

NextParse == Parse

SpecParse == InitParse /\ [][NextParse]_vars

\* one request to the users endpoints has arrived, on a table with any of the rows
InitUsers ==
    /\ \E req \in UserRequests :
          request = [r \in Runs |-> IF r = 1 THEN req ELSE None]
    /\ users \in StoredUsers
    /\ pc = [r \in Runs |-> IF r = 1 THEN "u_request" ELSE "absent"]
    /\ service = [r \in Runs |-> IF r = 1 THEN "users" ELSE "none"]
    /\ url = [r \in Runs |-> <<>>]
    /\ keywords = [r \in Runs |-> <<>>]
    /\ Fresh
    /\ NoParse

NextUsers ==
    \E r \in Runs :
        \/ UserHandler(r)
        \/ SessionCommit(r)
        \/ SessionRollback(r)

SpecUsers == InitUsers /\ [][NextUsers]_vars

\* two requests are in flight at once, one to each variant of the pipeline and each
\* with a body of its own: the handler has made each its own service object and generator
TwoRunServices == <<"investigate", "optimize">>

TwoRunKeywords == <<(<<"k1">>), (<<"k2", "k1">>)>>

InitTwo ==
    /\ users = {}
    /\ \E u \in Urls :
          /\ service = TwoRunServices
          /\ request = [r \in Runs |->
                           [url |-> [kind |-> "http_url", str |-> u],
                            keywords |-> TwoRunKeywords[r], location |-> Location]]
    /\ pc = [r \in Runs |-> "received"]
    /\ url = [r \in Runs |-> <<>>]
    /\ keywords = [r \in Runs |-> <<>>]
    /\ Fresh
    /\ NoParse

\* search.get_dict() called on the event loop's own thread: the run holds the thread
\* until the provider has answered
HoldsLoopInSearch(r) == pc[r] = "search"

\* run r occupies the thread of the event loop: never, every wait of a run is an
\* await (asyncio.sleep, Runner.run), and search_google has the two blocking calls
\* of the provider's client run by loop.run_in_executor
HoldsLoop(r) == FALSE

\* a step of run r's request, which the event loop can take when no other run
\* occupies its thread
StepTwo(r) ==
    /\ \A q \in Runs \ {r} : ~HoldsLoop(q)
    /\ \/ Validate(r)
       \/ Start(r)
       \/ ResumePending(r)
       \/ SleepDone(r)
       \/ Resume20(r)
       \/ SearchReturn(r)
       \/ SearchRaise(r)
       \/ Resume40(r)
       \/ ResumeAgents(r)
       \/ InvestigationReturn(r)
       \/ Resume70(r)
       \/ AnalysisReturn(r)
       \/ ResumeOptimizing(r)
       \/ OptimizationReturn(r)
       \/ AgentRaise(r)
       \/ ResumeTerminal(r)
       \/ Relay(r)

\* the event loop runs one step of one of the two runs at a time, in any order
NextTwo == \E r \in Runs : StepTwo(r)

SpecTwo == InitTwo /\ [][NextTwo]_vars

\* investigate or optimize called by any caller of the service, with a keyword list
\* that no schema has checked, the empty one too; the caller iterates the generator
InitGenerator ==
    /\ users = {}
    /\ request = [r \in Runs |-> None]
    /\ \E svc \in {"investigate", "optimize"}, u \in Urls,
          kws \in KeywordLists(0, MaxGeneratorKeywords) :
          /\ pc = [r \in Runs |-> IF r = 1 THEN "start" ELSE "absent"]
          /\ service = [r \in Runs |-> IF r = 1 THEN svc ELSE "none"]
          /\ url = [r \in Runs |-> IF r = 1 THEN u ELSE <<>>]
          /\ keywords = [r \in Runs |-> IF r = 1 THEN kws ELSE <<>>]
    /\ Fresh
    /\ NoParse

NextGenerator ==
    \E r \in Runs :
        \/ Start(r)
        \/ ResumePending(r)
        \/ SleepDone(r)
        \/ Resume20(r)
        \/ SearchReturn(r)
        \/ SearchRaise(r)
        \/ Resume40(r)
        \/ ResumeAgents(r)
        \/ InvestigationReturn(r)
        \/ Resume70(r)
        \/ AnalysisReturn(r)
        \/ ResumeOptimizing(r)
        \/ OptimizationReturn(r)
        \/ AgentRaise(r)
        \/ ResumeTerminal(r)
        \/ Relay(r)
        \/ Disconnect(r)

SpecGenerator == InitGenerator /\ [][NextGenerator]_vars

(* ------------------------------------------------------------------ *)
(* What the claims speak of                                            *)
(* ------------------------------------------------------------------ *)

\* the i-th event of run r, as the dict that was formatted
Ev(r, i) == Payload(events[r][i])

TerminalStatuses == {"completed", "failed"}

\* the positions of the terminal events of run r
TerminalAt(r) == {i \in 1..Len(events[r]) : Ev(r, i).status \in TerminalStatuses}

\* the positions in trace[r] of the yields
EmitsAt(r) == {i \in 1..Len(trace[r]) : trace[r][i].op = "emit"}

\* the positions in trace[r] of the yields of an event with progress p
EmitsOf(r, p) == {i \in EmitsAt(r) : Ev(r, trace[r][i].idx).progress = p}

\* the place of a status in the order pending, analyzing, optimizing, completed
StatusOrder(st) ==
    CASE st = "pending" -> 1
      [] st = "analyzing" -> 2
      [] st = "optimizing" -> 3
      [] OTHER -> 4

(* ------------------------------------------------------------------ *)
(* C1                                                                  *)
(* ------------------------------------------------------------------ *)

\* C1: no event of a run follows a completed or failed event, so a run has at most
\* one terminal event and it is the last one; and a run whose generator has run to
\* its end, whatever the searches and agents returned or raised, has exactly one.
C1_OneTerminalEventLast ==
    \A r \in Runs :
        /\ TerminalAt(r) \subseteq {Len(events[r])}
        /\ pc[r] = "done" => TerminalAt(r) = {Len(events[r])}

\* a run of investigate that went through all its steps and ended with completed
C1_Witness ==
    \E r \in Runs :
        /\ pc[r] = "done"
        /\ service[r] = "investigate"
        /\ Len(events[r]) = 7
        /\ Ev(r, 7).status = "completed"

(* ------------------------------------------------------------------ *)
(* C2                                                                  *)
(* ------------------------------------------------------------------ *)

\* C2: whenever a step of a streamed run raised, the next thing the run did, once the
\* exception had left the calls it went through, was to yield a failed event with
\* progress 0 whose message holds str(e); and after that yield the run called
\* nothing, got no return and yielded nothing.
C2_RaiseYieldsFailedAndStops ==
    \A r \in Runs :
        service[r] \in {"investigate", "optimize"} =>
            \A i \in 1..Len(trace[r]) :
                trace[r][i].op = "raise" =>
                    \E j \in (i + 1)..Len(trace[r]) :
                        /\ trace[r][j].op = "emit"
                        /\ \A k \in (i + 1)..(j - 1) : trace[r][k].op = "raise"
                        /\ Ev(r, trace[r][j].idx).status = "failed"
                        /\ Ev(r, trace[r][j].idx).progress = 0
                        /\ trace[r][i].arg \in Range(Ev(r, trace[r][j].idx).message)
                        /\ \A k \in (j + 1)..Len(trace[r]) : trace[r][k].op = "cancel"

\* the analyzer's run raised after the rankings were analyzed, and the run ended
C2_Witness ==
    \E r \in Runs :
        /\ pc[r] = "done"
        /\ \E i \in 1..Len(trace[r]) :
              /\ trace[r][i].op = "raise"
              /\ trace[r][i].what = "Analysis"
        /\ EmitsOf(r, 40) # {}

(* ------------------------------------------------------------------ *)
(* C3                                                                  *)
(* ------------------------------------------------------------------ *)

\* C3: in every run the progress values of the events that are not terminal never
\* decrease from one event to a later one, and a last event with status completed
\* has progress 100.
C3_ProgressMonotone ==
    \A r \in Runs :
        /\ \A i, j \in 1..Len(events[r]) :
              (i < j /\ i \notin TerminalAt(r) /\ j \notin TerminalAt(r))
                  => Ev(r, i).progress <= Ev(r, j).progress
        /\ (Len(events[r]) > 0 /\ Ev(r, Len(events[r])).status = "completed")
              => Ev(r, Len(events[r])).progress = 100

\* a run of optimize that yielded all its six events
C3_Witness ==
    \E r \in Runs :
        /\ service[r] = "optimize"
        /\ Len(events[r]) = 6
        /\ Ev(r, 6).status = "completed"
        /\ Ev(r, 5).progress = 80

(* ------------------------------------------------------------------ *)
(* C4                                                                  *)
(* ------------------------------------------------------------------ *)

\* C4: the first event of a run is pending with progress 0; from one event to the
\* next the status stays or moves one place on in the order pending, analyzing,
\* optimizing, completed, or jumps to failed; nothing follows a completed or failed
\* event; and no step (a keyword's search, an agent's run, the sleep, the parsing)
\* is called twice in a run.
C4_LinearStateMachine ==
    \A r \in Runs :
        /\ Len(events[r]) > 0 =>
              (Ev(r, 1).status = "pending" /\ Ev(r, 1).progress = 0)
        /\ \A i \in 1..(Len(events[r]) - 1) :
              /\ Ev(r, i).status \notin TerminalStatuses
              /\ \/ Ev(r, i + 1).status = "failed"
                 \/ StatusOrder(Ev(r, i + 1).status) - StatusOrder(Ev(r, i).status) \in {0, 1}
        /\ \A i, j \in 1..Len(trace[r]) :
              (i < j /\ trace[r][i].op = "call" /\ trace[r][j].op = "call")
                  => <<trace[r][i].what, trace[r][i].idx>> # <<trace[r][j].what, trace[r][j].idx>>

\* a run that jumped from optimizing to failed: the optimizer's run raised
C4_Witness ==
    \E r \in Runs :
        /\ pc[r] = "done"
        /\ Len(events[r]) > 1
        /\ Ev(r, Len(events[r]) - 1).status = "optimizing"
        /\ Ev(r, Len(events[r])).status = "failed"
        /\ Len(keywords[r]) > 1

(* ------------------------------------------------------------------ *)
(* C5                                                                  *)
(* ------------------------------------------------------------------ *)

\* the positions in trace[r] of the entries that equal e
At(r, e) == {i \in 1..Len(trace[r]) : trace[r][i] = e}

\* C5, as claimed: in investigate the progress 70 event is yielded only after the
\* analyzer's run has returned.
C5_Original ==
    \A r \in Runs :
        service[r] = "investigate" =>
            \A i \in EmitsOf(r, 70) : \E j \in At(r, Return("Analysis", 0)) : j < i

\* C5, amended: in investigate the progress 70 event is yielded only after the
\* investigator's run has returned, and before the analyzer's run is called: every
\* call of the analyzer comes after it.
C5_SeventyAfterInvestigation ==
    \A r \in Runs :
        service[r] = "investigate" =>
            \A i \in EmitsOf(r, 70) :
                /\ Ev(r, trace[r][i].idx).status = "analyzing"
                /\ \E j \in At(r, Return("Investigation", 0)) : j < i
                /\ \A j \in At(r, Call("Analysis", 0)) : j > i

\* the progress 70 event was yielded and the analyzer's run returned after it
C5_Witness ==
    \E r \in Runs :
        /\ service[r] = "investigate"
        /\ \E i \in EmitsOf(r, 70) : \E j \in At(r, Return("Analysis", 0)) : j > i

(* ------------------------------------------------------------------ *)
(* C6                                                                  *)
(* ------------------------------------------------------------------ *)

\* C6: the progress 40 event is yielded only after the search of every position of
\* the keyword list has returned; its data holds rankings, with exactly the distinct
\* input keywords as keys and the ranks the analysis computed, and competitors, the
\* list the analysis returned, drawn from the links it collected.
C6_FortyAfterAllSearches ==
    \A r \in Runs :
        \A i \in EmitsOf(r, 40) :
            LET ev == Ev(r, trace[r][i].idx)
            IN  /\ \A k \in 1..Len(keywords[r]) :
                      \E j \in At(r, Return("search", k)) : j < i
                /\ "data" \in DOMAIN ev
                /\ DOMAIN ev.data = {"rankings", "competitors"}
                /\ DOMAIN ev.data.rankings = Range(keywords[r])
                /\ ev.data.rankings = rankings[r]
                /\ ev.data.competitors = analysis_data[r][1].competitors
                /\ Range(ev.data.competitors) \subseteq all_competitors[r]

\* two distinct keywords, the target found for one of them and not for the other
C6_Witness ==
    \E r \in Runs :
        /\ EmitsOf(r, 40) # {}
        /\ Len(keywords[r]) = 2
        /\ keywords[r][1] # keywords[r][2]
        /\ rankings[r][keywords[r][1]] = Some(3)
        /\ rankings[r][keywords[r][2]] = None
        /\ all_competitors[r] # {}

(* ------------------------------------------------------------------ *)
(* C7                                                                  *)
(* ------------------------------------------------------------------ *)

\* the pairs of a small letter and its capital
CasePairs == {<<"e", "E">>, <<"x", "X">>}

SameLetter(a, b) == a = b \/ <<a, b>> \in CasePairs \/ <<b, a>> \in CasePairs

\* link contains u as a substring, the case of the letters set aside
HoldsTarget(link, u) ==
    \E i \in 0..(Len(link) - Len(u)) : \A j \in 1..Len(u) : SameLetter(link[i + j], u[j])

\* the link of an entry, empty when the entry has none
LinkOf(result) ==
    IF "link" \in DOMAIN result /\ result.link.t = "str" THEN result.link.v ELSE <<>>

\* the positions among the first 20 entries whose link contains u
MatchesIn(org, u) == {k \in 1..Len(org) : k <= 20 /\ HoldsTarget(LinkOf(org[k]), u)}

\* the position in keywords[r] of the keyword whose loop body ran last, 0 if none did
LastSearched(r) ==
    CASE pc[r] = "returned" -> kwidx[r]
      [] pc[r] = "search" -> kwidx[r] - 1
      [] OTHER -> 0

\* C7: after the loop body of a keyword, rankings[keyword] is the least position
\* among the first 20 organic results whose link contains the target URL, case set
\* aside, and null when there is none; every value of rankings is null or an
\* integer in 1..20.
C7_RankIsFirstMatchInTop20 ==
    \A r \in Runs :
        /\ LastSearched(r) > 0 =>
              LET org == DictGet(results[r][1], "organic_results", <<>>)
                  rank == rankings[r][keywords[r][LastSearched(r)]]
                  M == MatchesIn(org, url[r])
              IN  /\ M = {} => rank = None
                  /\ M # {} => rank = Some(CHOOSE k \in M : \A m \in M : k <= m)
        /\ \A k \in DOMAIN rankings[r] :
              \/ rankings[r][k] = None
              \/ Len(rankings[r][k]) = 1 /\ rankings[r][k][1] \in 1..20

\* the target at position 20 for one keyword and at position 21 for another
C7_Witness ==
    \E r \in Runs :
        /\ pc[r] = "returned"
        /\ \E k \in DOMAIN rankings[r] : rankings[r][k] = Some(20)
        /\ \E k \in DOMAIN rankings[r] : rankings[r][k] = None
        /\ "organic_results" \in DOMAIN results[r][1]
        /\ Len(results[r][1].organic_results) > 20
        /\ MatchesIn(results[r][1].organic_results, url[r]) = {}
        /\ HoldsTarget(LinkOf(results[r][1].organic_results[21]), url[r])

(* ------------------------------------------------------------------ *)
(* C8                                                                  *)
(* ------------------------------------------------------------------ *)

\* C8: the competitors list analyze_rankings returns has at most 10 entries, no
\* entry twice, and no entry that contains the target URL, case set aside.
C8_CompetitorsBounded ==
    \A r \in Runs :
        analysis_data[r] # None =>
            LET c == analysis_data[r][1].competitors
            IN  /\ Len(c) <= 10
                /\ \A i, j \in 1..Len(c) : i # j => c[i] # c[j]
                /\ \A i \in 1..Len(c) : ~HoldsTarget(c[i], url[r])

\* more than ten links collected over the keywords, ten returned
C8_Witness ==
    \E r \in Runs :
        /\ pc[r] = "returned"
        /\ Cardinality(all_competitors[r]) > 10
        /\ Len(analysis_data[r][1].competitors) = 10

(* ------------------------------------------------------------------ *)
(* C9                                                                  *)
(* ------------------------------------------------------------------ *)

\* no line of text is one the parser of svc takes for an item
NoItemLine(svc, text) ==
    \A i \in 1..Len(SplitLines(text)) : ~IsItemLine(svc, Strip(SplitLines(text)[i]))

\* C9: _parse_recommendations never returns an empty list, and for a text none of
\* whose lines qualifies as an item it returns the list whose one element is the text
\* as it was given.
C9_NeverEmptyFallbackIsText ==
    p_out # None =>
        /\ Len(p_out[1]) >= 1
        /\ NoItemLine(p_service, p_text) => p_out[1] = <<p_text>>

\* a text of two lines, neither an item, came back whole
C9_Witness ==
    /\ p_out # None
    /\ NoItemLine(p_service, p_text)
    /\ Len(SplitLines(Strip(p_text))) = 2
    /\ p_out[1] = <<p_text>>

(* ------------------------------------------------------------------ *)
(* C10                                                                 *)
(* ------------------------------------------------------------------ *)

\* C10, as claimed: for a text with no numbered or bulleted line the result is the
\* list whose one element is the trimmed text.
C10_Original ==
    (p_out # None /\ NoItemLine(p_service, p_text)) => p_out[1] = <<Strip(p_text)>>

\* C10, amended: for a text with no numbered or bulleted line the result has one
\* element, which is the text character for character, its leading and trailing
\* whitespace kept; it is the trimmed text only when the text had none to trim.
C10_FallbackKeepsWhitespace ==
    (p_out # None /\ NoItemLine(p_service, p_text)) =>
        /\ Len(p_out[1]) = 1
        /\ Len(p_out[1][1]) = Len(p_text)
        /\ \A i \in 1..Len(p_text) : p_out[1][1][i] = p_text[i]
        /\ (p_out[1][1] = Strip(p_text)) <=> (p_text = <<>> \/ (p_text[1] \notin Whitespace /\ p_text[Len(p_text)] \notin Whitespace))

\* a text with a space before and a line break after its words
C10_Witness ==
    /\ p_out # None
    /\ NoItemLine(p_service, p_text)
    /\ Len(p_text) >= 3
    /\ p_text[1] = " "
    /\ p_text[Len(p_text)] = "\n"
    /\ Len(Strip(p_text)) > 0
    /\ p_out[1][1] # Strip(p_text)

(* ------------------------------------------------------------------ *)
(* C11                                                                 *)
(* ------------------------------------------------------------------ *)

\* the bullet character
Bullet == "U+2022"

\* a trimmed line that starts with a digit, a - or the bullet character
StartsAsItem(line) == line # <<>> /\ line[1] \in Digits \cup {"-", Bullet}

\* the line without its leading enumerator (a run of digits) or bullet (one - or
\* one bullet character), and without the punctuation and whitespace next to it
WithoutEnumerator(line) ==
    LET body == IF line[1] \in Digits THEN LStripChars(line, Digits) ELSE Tail(line)
    IN  Strip(LStripChars(body, {".", ")", " "}))

RECURSIVE ItemsFrom(_, _)
\* the lines from the i-th on that start as items, in order, each without its enumerator
ItemsFrom(lines, i) ==
    IF i > Len(lines) THEN <<>>
    ELSE LET line == Strip(lines[i])
         IN  IF StartsAsItem(line) /\ WithoutEnumerator(line) # <<>>
             THEN <<WithoutEnumerator(line)>> \o ItemsFrom(lines, i + 1)
             ELSE ItemsFrom(lines, i + 1)

\* C11, as claimed: in both services, when some line of the text starts, once
\* trimmed, with a digit, a - or the bullet character and has words after its
\* enumerator, the result lists exactly those lines, in their order, each without
\* its leading enumerator or bullet and the punctuation and whitespace next to it,
\* the rest of the line kept as it was.
C11_Original ==
    (p_out # None /\ ItemsFrom(SplitLines(p_text), 1) # <<>>) =>
        p_out[1] = ItemsFrom(SplitLines(p_text), 1)

(* ------------------------------------------------------------------ *)
(* C12                                                                 *)
(* ------------------------------------------------------------------ *)

\* what a tool call returned tells of the error e in band: fetch_url_content a JSON
\* object with the keys error and url, fetch_page_content a text that starts with
\* "Error fetching page: "
ErrorShaped(call) ==
    IF call.tool = "fetch_url_content"
    THEN /\ "json" \in DOMAIN call.out
         /\ DOMAIN call.out.json = {"error", "url"}
         /\ call.out.json.error = call.outcome.e
         /\ call.out.json.url = call.url
    ELSE /\ "text" \in DOMAIN call.out
         /\ call.out.text = <<"Error fetching page: ", call.outcome.e>>

\* the positions in trace[r] of the raises
RaisesAt(r) == {i \in 1..Len(trace[r]) : trace[r][i].op = "raise"}

\* C12: when a fetch inside a fetch tool failed (host unreachable, timeout, error
\* status, markup the parser rejects), the tool returned an error-shaped value to the
\* agent, whose run is still awaited; nothing was raised in the run, no failed event
\* was yielded and no error response was sent.
C12_FetchFailureStaysInTool ==
    \A r \in Runs :
        (tool_call[r] # None /\ FetchFailed(tool_call[r][1].outcome)) =>
            /\ ErrorShaped(tool_call[r][1])
            /\ pc[r] \in {"await_inv", "await_fetch"}
            /\ RaisesAt(r) = {}
            /\ \A i \in 1..Len(events[r]) : Ev(r, i).status # "failed"
            /\ response[r] = None

\* the investigator's agent called fetch_url_content on an unreachable host; the
\* run has yielded its four events up to progress 50 and waits for the agent
C12_Witness ==
    \E r \in Runs :
        /\ tool_call[r] # None
        /\ tool_call[r][1].tool = "fetch_url_content"
        /\ tool_call[r][1].outcome.kind = "raise"
        /\ pc[r] = "await_inv"
        /\ Len(events[r]) = 4
        /\ Ev(r, 4).progress = 50

(* ------------------------------------------------------------------ *)
(* C13                                                                 *)
(* ------------------------------------------------------------------ *)

AgentRoles == {"Investigation", "Analysis", "Optimization"}

\* the positions of the failed events of run r
FailedAt(r) == {i \in 1..Len(events[r]) : Ev(r, i).status = "failed"}

\* the steps that reach outside the process: the search of a keyword position and
\* the run of an agent role
IsExternalCall(entry) ==
    entry.op = "call" /\ entry.what \in AgentRoles \cup {"search"}

\* C13: in a run the search of each position of the keyword list is called at most
\* once and each agent role is run at most once; nothing is called again after it
\* raised; and a run in which a search or an agent run raised has exactly one failed
\* event.
C13_NoRetryOneFailed ==
    \A r \in Runs :
        service[r] \in {"investigate", "optimize"} =>
            /\ \A i, j \in 1..Len(trace[r]) :
                  (i < j /\ IsExternalCall(trace[r][i]) /\ IsExternalCall(trace[r][j]))
                      => \/ trace[r][i].what # trace[r][j].what
                         \/ trace[r][i].idx # trace[r][j].idx
            /\ \A i \in RaisesAt(r) :
                  /\ \A j \in (i + 1)..Len(trace[r]) : trace[r][j].op # "call"
                  /\ Cardinality(FailedAt(r)) = 1

\* the search of the first keyword returned, the search of the second raised, and
\* the run ended
C13_Witness ==
    \E r \in Runs :
        /\ pc[r] = "done"
        /\ At(r, Return("search", 1)) # {}
        /\ \E i \in RaisesAt(r) : trace[r][i].what = "search" /\ trace[r][i].idx = 2
        /\ Cardinality(FailedAt(r)) = 1

(* ------------------------------------------------------------------ *)
(* C14                                                                 *)
(* ------------------------------------------------------------------ *)

\* the place of a role in the order Investigation, Analysis, Optimization
RoleOrder(role) ==
    CASE role = "Investigation" -> 1
      [] role = "Analysis" -> 2
      [] OTHER -> 3

\* the positions in trace[r] of the calls of agent roles
RoleCallsAt(r) ==
    {i \in 1..Len(trace[r]) : trace[r][i].op = "call" /\ trace[r][i].what \in AgentRoles}

\* the role called at position i of trace[r] has neither returned nor raised since
InFlightAt(r, i) ==
    \A j \in (i + 1)..Len(trace[r]) :
        ~(trace[r][j].op \in {"return", "raise"} /\ trace[r][j].what = trace[r][i].what)

\* the values of the fields of a context
FieldsOf(input) == {input[k] : k \in DOMAIN input}

\* C14: in a run at most one agent role is in flight; the roles are called in the
\* order Investigation, Analysis, Optimization; when the run has an Investigation
\* role (investigate), the Analysis run is called only after the Investigation run
\* returned and its input holds the investigator's output; the Optimization run is
\* called only after the Analysis run returned and its input holds the analyzer's
\* output.  In optimize no Investigation role is ever called and Analysis comes first.
C14_RolesSequentialAndChained ==
    \A r \in Runs :
        /\ Cardinality({i \in RoleCallsAt(r) : InFlightAt(r, i)}) <= 1
        /\ \A i, j \in RoleCallsAt(r) :
              i < j => RoleOrder(trace[r][i].what) < RoleOrder(trace[r][j].what)
        /\ \A i \in At(r, Call("Analysis", 0)) :
              IF service[r] = "investigate"
              THEN /\ \E j \in At(r, Return("Investigation", 0)) : j < i
                   /\ investigation_result[r] # None
                   /\ investigation_result[r][1] \in FieldsOf(inputs[r]["Analysis"])
              ELSE At(r, Call("Investigation", 0)) = {}
        /\ \A i \in At(r, Call("Optimization", 0)) :
              /\ \E j \in At(r, Return("Analysis", 0)) : j < i
              /\ analysis_result[r] # None
              /\ analysis_result[r][1] \in FieldsOf(inputs[r]["Optimization"])

\* an investigate run whose three roles were all called, the optimizer in flight
C14_Witness ==
    \E r \in Runs :
        /\ service[r] = "investigate"
        /\ pc[r] = "await_opt"
        /\ DOMAIN inputs[r] = AgentRoles
        /\ inputs[r]["Optimization"].analysis_insights = analysis_result[r][1]
        /\ inputs[r]["Optimization"].investigation_findings = investigation_result[r][1]

(* ------------------------------------------------------------------ *)
(* C15                                                                 *)
(* ------------------------------------------------------------------ *)

\* C15: at every moment what has been passed on to a run's response is a prefix of
\* what the run's generator has yielded: the same strings in the same order, none
\* twice, none merged, none left out; and at most one yielded string waits to be
\* passed on.
C15_DeliveredIsPrefix ==
    \A r \in Runs :
        /\ Len(delivered[r]) <= Len(events[r])
        /\ \A i \in 1..Len(delivered[r]) : delivered[r][i] = events[r][i]
        /\ Len(events[r]) - Len(delivered[r]) <= 1

\* the seven events of an investigate run, the completed one last, all passed on
C15_Witness ==
    \E r \in Runs :
        /\ Len(delivered[r]) = 7
        /\ Payload(delivered[r][7]).status = "completed"
        /\ Payload(delivered[r][5]).progress = 70
        /\ delivered[r] = events[r]

(* ------------------------------------------------------------------ *)
(* C16                                                                 *)
(* ------------------------------------------------------------------ *)

\* the positions in trace[r] at which the generator was closed or cancelled
CancelsAt(r) == {i \in 1..Len(trace[r]) : trace[r][i].op = "cancel"}

\* C16: once the generator of a run has been closed or cancelled, whichever yield or
\* await it was suspended at, the run calls nothing more: no search, no agent run, no
\* other step; nothing returns to it and it yields nothing.
C16_NoStepAfterDisconnect ==
    \A r \in Runs :
        \A i \in CancelsAt(r) :
            /\ i = Len(trace[r])
            /\ pc[r] = "cancelled"

\* the stream was closed while the search of the first of two keywords was in
\* flight: the second keyword was never searched
C16_Witness ==
    \E r \in Runs :
        /\ pc[r] = "cancelled"
        /\ Len(keywords[r]) = 2
        /\ At(r, Cancel("search")) # {}
        /\ At(r, Call("search", 1)) # {}
        /\ At(r, Call("search", 2)) = {}

(* ------------------------------------------------------------------ *)
(* C17                                                                 *)
(* ------------------------------------------------------------------ *)

\* a body for the streamed pipeline with no keyword, with more than 10 keywords, or
\* with a URL that is not well formed
BadRequest(r) ==
    /\ service[r] \in {"investigate", "optimize"}
    /\ \/ Len(request[r].keywords) = 0
       \/ Len(request[r].keywords) > 10
       \/ request[r].url.kind # "http_url"

\* C17: for a request with an empty keyword list, more than 10 keywords or a
\* malformed URL the pipeline is never invoked: no generator is started, nothing is
\* called, no event is yielded or passed on; and once the request is answered the
\* answer is a client error (status 4xx).
C17_InvalidRequestRejected ==
    \A r \in Runs :
        BadRequest(r) =>
            /\ pc[r] \in {"received", "rejected"}
            /\ trace[r] = <<>>
            /\ events[r] = <<>>
            /\ delivered[r] = <<>>
            /\ task_id[r] = ""
            /\ pc[r] = "rejected" =>
                  (response[r] # None /\ response[r][1].status_code \in 400..499)

\* a request with eleven keywords and a well-formed URL was answered with 422
C17_Witness ==
    \E r \in Runs :
        /\ pc[r] = "rejected"
        /\ Len(request[r].keywords) = 11
        /\ request[r].url.kind = "http_url"
        /\ response[r][1].status_code = 422

(* ------------------------------------------------------------------ *)
(* C18                                                                 *)
(* ------------------------------------------------------------------ *)

\* the positions of the events of run r with progress p
EventsOf(r, p) == {i \in 1..Len(events[r]) : Ev(r, i).progress = p}

\* C18: in a run that ended with completed, analyze_rankings was called once, and
\* the final event's data.current_rankings and data.competitors are the rankings and
\* the competitors it returned, the same as in the data of the run's progress 40
\* event; no competitor contains the target URL.
C18_FinalDataIsAnalysisData ==
    \A r \in Runs :
        \A i \in 1..Len(events[r]) :
            Ev(r, i).status = "completed" =>
                /\ Cardinality(At(r, Call("analyze_rankings", 0))) = 1
                /\ Cardinality(EventsOf(r, 40)) = 1
                /\ Ev(r, i).data.current_rankings = analysis_data[r][1].rankings
                /\ Ev(r, i).data.competitors = analysis_data[r][1].competitors
                /\ \A j \in EventsOf(r, 40) :
                      /\ j < i
                      /\ Ev(r, i).data.current_rankings = Ev(r, j).data.rankings
                      /\ Ev(r, i).data.competitors = Ev(r, j).data.competitors
                /\ \A k \in 1..Len(Ev(r, i).data.competitors) :
                      ~HoldsTarget(Ev(r, i).data.competitors[k], url[r])

\* one keyword, the target at position 3 of its results: the completed event says
\* rank 3 and names competitors
C18_Witness ==
    \E r \in Runs :
        /\ Len(events[r]) > 0
        /\ Ev(r, Len(events[r])).status = "completed"
        /\ Len(keywords[r]) = 1
        /\ Ev(r, Len(events[r])).data.current_rankings[keywords[r][1]] = Some(3)
        /\ Len(Ev(r, Len(events[r])).data.competitors) > 0

(* ------------------------------------------------------------------ *)
(* C19                                                                 *)
(* ------------------------------------------------------------------ *)

\* a completed or failed event has been passed on to the response of run r
TerminalDelivered(r) ==
    \E i \in 1..Len(delivered[r]) : Payload(delivered[r][i]).status \in TerminalStatuses

\* a failed event has been passed on to the response of run r
FailedDelivered(r) ==
    \E i \in 1..Len(delivered[r]) : Payload(delivered[r][i]).status = "failed"

\* C19: when the client keeps reading and every search and agent run returns or
\* raises in the end, a run whose generator was created yields a terminal event
\* that reaches the response; and a run in which a step raised gets a failed event
\* into the stream.
C19_EveryRunEndsWithTerminalEvent ==
    \A r \in Runs :
        /\ (pc[r] = "start") ~> TerminalDelivered(r)
        /\ (service[r] \in {"investigate", "optimize"} /\ RaisesAt(r) # {}) ~> FailedDelivered(r)

\* the optimizer's run raised, the failed event went out and the generator ended
C19_Witness ==
    \E r \in Runs :
        /\ pc[r] = "done"
        /\ At(r, Raise("Optimization", 0, "OpenAI rate limit")) # {}
        /\ FailedDelivered(r)
        /\ delivered[r] = events[r]

(* ------------------------------------------------------------------ *)
(* C20                                                                 *)
(* ------------------------------------------------------------------ *)

\* run r is a create whose email belongs to a row that was stored when its session
\* opened, and its handler has run
DuplicateCreate(r) ==
    /\ service[r] = "users"
    /\ request[r].op = "create"
    /\ handled[r] # None
    /\ \E u \in session[r][1].base : u.email = request[r].email

\* C20: UserService.create with an email that a stored user has returns None, the
\* endpoint answers with the client error 400 and not with a server error, nothing
\* of the request is ever committed, and the stored users stay as they were.
C20_DuplicateCreateReturnsNone ==
    \A r \in Runs :
        DuplicateCreate(r) =>
            /\ handled[r][1].result = Returned(None)
            /\ handled[r][1].kind = "raised"
            /\ handled[r][1].exc = "HTTPException"
            /\ users = session[r][1].base
            /\ \A i \in 1..Len(session[r][1].log) : session[r][1].log[i] # "commit"
            /\ pc[r] = "u_done" =>
                  /\ response[r] # None
                  /\ response[r][1].status_code = 400
                  /\ session[r][1].rows = users

C20_Witness ==
    \E r \in Runs :
        /\ DuplicateCreate(r)
        /\ pc[r] = "u_done"
        /\ users # {}
        /\ handled[r][1].result = Returned(None)
        /\ response[r][1].status_code = 400

(* ------------------------------------------------------------------ *)
(* C21                                                                 *)
(* ------------------------------------------------------------------ *)

\* run r is an update that gives its user the email of another stored user, and its
\* handler has run
DuplicateUpdate(r) ==
    /\ service[r] = "users"
    /\ request[r].op = "update"
    /\ request[r].email # None
    /\ handled[r] # None
    /\ \E u, v \in session[r][1].base :
          u.id = request[r].user_id /\ v.id # u.id /\ v.email = request[r].email[1]

\* C21, as claimed: no operation of the user store lets an exception out, and an
\* update to an email that another user has returns None, which update_user reports
\* as 404 not found.
C21_Original ==
    \A r \in Runs :
        (service[r] = "users" /\ handled[r] # None) =>
            /\ handled[r][1].result.kind = "returned"
            /\ DuplicateUpdate(r) =>
                  /\ handled[r][1].result = Returned(None)
                  /\ handled[r][1].exc = "HTTPException"
                  /\ handled[r][1].status_code = 404

(* ------------------------------------------------------------------ *)
(* C22                                                                 *)
(* ------------------------------------------------------------------ *)

\* everything that belongs to run q
PerRun(q) ==
    <<request[q], pc[q], service[q], url[q], keywords[q], task_id[q], events[q], trace[q],
      kwidx[q], rankings[q], all_competitors[q], results[q], analysis_data[q],
      investigation_result[q], analysis_result[q], inputs[q], tool_call[q], response[q],
      delivered[q]>>

\* the events a run of svc yields when nothing fails, but for the last: the events
\* before the completed one, made of the request and of what analyze_rankings returned
\* to this run
AnnouncedEvents(r) ==
    <<PendingEvent, RankingsStartEvent(keywords[r])>>
        \o (IF analysis_data[r] = None THEN <<>>
            ELSE <<RankingsDoneEvent(analysis_data[r][1]), AgentsStartEvent(service[r])>>
                    \o (IF service[r] = "investigate" THEN <<AnalysisStartEvent>> ELSE <<>>)
                    \o <<OptimizingEvent(service[r])>>)

\* the completed events run r can yield: its own id, request, rankings, competitors
\* and analysis, with the recommendations parsed from an answer of its optimizer
OwnCompletedEvents(r) ==
    {CompletedEvent(task_id[r], url[r], keywords[r], analysis_data[r][1],
                    ParseRecommendations(service[r], out.v), analysis_result[r][1]) :
        out \in {o \in OptimizationOutputs : IsStr(o)}}

FailedEvents ==
    {FailedEvent(e) :
        e \in SearchErrors \cup AgentErrors
                \cup {AttributeErrorLower, AttributeErrorStrip, UnboundLocalResults}}

\* events[r] is what run r yields alone on its request and the answers it was given
OwnEvents(r) ==
    LET ann == AnnouncedEvents(r)
        n == Len(events[r])
    IN  /\ \A i \in 1..Min(n - 1, Len(ann)) : Ev(r, i) = ann[i]
        /\ n - 1 <= Len(ann)
        /\ n > 0 =>
              \/ n <= Len(ann) /\ Ev(r, n) = ann[n]
              \/ Ev(r, n) \in FailedEvents
              \/ /\ n = Len(ann) + 1
                 /\ analysis_data[r] # None
                 /\ analysis_result[r] # None
                 /\ Ev(r, n) \in OwnCompletedEvents(r)

\* C22: with the steps of two runs interleaved in any order, a step of one run
\* changes nothing that belongs to the other, every event of a run's stream is the
\* event the run yields alone for its own request and the answers it was given
\* (statuses, progress, rankings, competitors, recommendations), what is passed on to
\* a run's response are that run's events, and the task ids of the two runs differ.
C22_RunsIndependent ==
    /\ [][\E r \in Runs : \A q \in Runs \ {r} : PerRun(q)' = PerRun(q)]_vars
    /\ [](\A r \in Runs :
            /\ OwnEvents(r)
            /\ \A i \in 1..Len(delivered[r]) : delivered[r][i] = events[r][i]
            /\ \A q \in Runs \ {r} : task_id[r] # "" => task_id[q] # task_id[r])

\* run 1 has yielded its completed event while run 2 awaits its optimizer
C22_Witness ==
    /\ pc[1] = "y_completed"
    /\ pc[2] = "await_opt"
    /\ Len(events[2]) = 5
    /\ Ev(1, Len(events[1])).data.keywords # keywords[2]
    /\ task_id[1] # task_id[2]

(* ------------------------------------------------------------------ *)
(* C23                                                                 *)
(* ------------------------------------------------------------------ *)

\* the other variant of the pipeline
OtherService(svc) == IF svc = "investigate" THEN "optimize" ELSE "investigate"

\* C23, as claimed: the two variants differ in the Investigation stage only, so the
\* recommendations one service parses out of a text are those the other service
\* parses out of the same text.
C23_Original ==
    p_out # None => p_out[1] = ParseRecommendations(OtherService(p_service), p_text)

(* ------------------------------------------------------------------ *)
(* C24                                                                 *)
(* ------------------------------------------------------------------ *)

EventStatuses == {"pending", "analyzing", "optimizing", "completed", "failed"}

ResultFields ==
    {"id", "url", "keywords", "location", "current_rankings", "competitors",
     "recommendations", "analysis"}

\* the string is "data: ", one JSON text and a blank line
WellFramed(sse) ==
    /\ Len(sse) = 3
    /\ sse[1] = "data: "
    /\ DOMAIN sse[2] = {"json"}
    /\ sse[3] = "\n\n"

\* C24: every string either variant yields is one "data: <JSON>" unit closed by a
\* blank line whose JSON is a ProgressEvent: a status out of pending, analyzing,
\* optimizing, completed, failed, an integer progress in 0..100 and a message; and a
\* completed event has a data payload with id, url, keywords, location,
\* current_rankings, competitors, recommendations and analysis.
C24_EventsWellFormed ==
    \A r \in Runs : \A i \in 1..Len(events[r]) :
        /\ WellFramed(events[r][i])
        /\ {"status", "message", "progress"} \subseteq DOMAIN Ev(r, i)
        /\ DOMAIN Ev(r, i) \subseteq {"status", "message", "progress", "data"}
        /\ Ev(r, i).status \in EventStatuses
        /\ Ev(r, i).progress \in 0..100
        /\ Ev(r, i).message # <<>>
        /\ Ev(r, i).status = "completed" =>
              /\ "data" \in DOMAIN Ev(r, i)
              /\ ResultFields \subseteq DOMAIN Ev(r, i).data

\* a run has yielded its whole stream, up to a completed event with its payload
C24_Witness ==
    \E r \in Runs :
        /\ pc[r] = "done"
        /\ Len(events[r]) >= 3
        /\ Ev(r, Len(events[r])).status = "completed"
        /\ ResultFields \subseteq DOMAIN Ev(r, Len(events[r])).data
        /\ service[r] = "optimize"

(* ------------------------------------------------------------------ *)
(* C25                                                                 *)
(* ------------------------------------------------------------------ *)

\* the positions in trace[r] of the calls of search_google
SearchCallsAt(r) ==
    {i \in 1..Len(trace[r]) : trace[r][i].op = "call" /\ trace[r][i].what = "search"}

\* run r has come to its end
Finished(r) == pc[r] \in {"done", "rejected", "cancelled", "responded"}

\* C25: analyze_rankings searches the keywords one at a time in the order of the
\* list: the k-th search it starts is the one for the k-th keyword, it is started
\* only when the search before it has returned, a run whose analyze_rankings returned
\* has issued one search for each position of its keyword list; and while a run
\* waits for the provider, the event loop can still take a step of the other run.
C25_SearchesSequentialNonBlocking ==
    \A r \in Runs :
        /\ \A i \in SearchCallsAt(r) :
              /\ trace[r][i].idx = Cardinality({j \in SearchCallsAt(r) : j <= i})
              /\ trace[r][i].idx > 1 =>
                    \E j \in 1..(i - 1) : trace[r][j] = Return("search", trace[r][i].idx - 1)
        /\ analysis_data[r] # None =>
              /\ Cardinality(SearchCallsAt(r)) = Len(keywords[r])
              /\ DOMAIN analysis_data[r][1].rankings = Range(keywords[r])
        /\ pc[r] = "search" =>
              \A q \in Runs \ {r} : ~Finished(q) => ENABLED StepTwo(q)

\* run 2 waits for the search of its second keyword while run 1 has its rankings
C25_Witness ==
    /\ pc[2] = "search"
    /\ kwidx[2] = 2
    /\ Cardinality(SearchCallsAt(2)) = 2
    /\ pc[1] = "y40"

(* ------------------------------------------------------------------ *)
(* C26                                                                 *)
(* ------------------------------------------------------------------ *)

\* the links of the first 5 entries of a response that are not empty and do not
\* contain u, the case of the letters set aside
FirstFiveLinks(resp, u) ==
    LET org == DictGet(resp, "organic_results", <<>>)
    IN  {LinkOf(org[k]) :
            k \in {m \in 1..Min(5, Len(org)) :
                      LinkOf(org[m]) # <<>> /\ ~HoldsTarget(LinkOf(org[m]), u)}}

\* C26: all_competitors grows only by links out of the first 5 organic results of
\* the search that just returned, and takes every such link that is not empty and
\* does not match the target; the competitors list that analyze_rankings returns has
\* only links of all_competitors, none of them empty, and all of them when there are
\* at most 10.
C26_CompetitorsFromFirstFive ==
    /\ [][\A r \in Runs :
            all_competitors'[r] # all_competitors[r] =>
                /\ results'[r] # None
                /\ (all_competitors'[r] \ all_competitors[r])
                      \subseteq FirstFiveLinks(results'[r][1], url[r])]_vars
    /\ [](\A r \in Runs :
            /\ LastSearched(r) > 0 =>
                  FirstFiveLinks(results[r][1], url[r]) \subseteq all_competitors[r]
            /\ analysis_data[r] # None =>
                  LET c == analysis_data[r][1].competitors
                  IN  /\ Range(c) \subseteq all_competitors[r]
                      /\ \A i \in 1..Len(c) : c[i] # <<>>
                      /\ Cardinality(all_competitors[r]) <= 10 => Range(c) = all_competitors[r])

\* a call that returned all the links it collected, over more than one search, from
\* responses that have competitors' links after their fifth entry too
C26_Witness ==
    \E r \in Runs :
        /\ pc[r] = "returned"
        /\ Len(keywords[r]) > 1
        /\ Cardinality(all_competitors[r]) \in 6..10
        /\ Range(analysis_data[r][1].competitors) = all_competitors[r]
        /\ Len(DictGet(results[r][1], "organic_results", <<>>)) > 5
        /\ ~(FirstFiveLinks(results[r][1], url[r]) = all_competitors[r])

(* ------------------------------------------------------------------ *)
(* C27                                                                 *)
(* ------------------------------------------------------------------ *)

NonContentTags == {"script", "style", "nav", "footer", "header"}

\* the text a tool call returned for a page it got
ContentOf(call) ==
    IF call.tool = "fetch_url_content" THEN call.out.json.content ELSE call.out.text

\* C27, as claimed: when a fetch tool got a page, fetch_url_content as well as
\* fetch_page_content, no text that lies inside a script, style, nav, footer or header
\* element of the page is in the content it returns.
C27_Original ==
    \A r \in Runs :
        (tool_call[r] # None /\ ~FetchFailed(tool_call[r][1].outcome)) =>
            LET body == tool_call[r][1].outcome.page.body
            IN  \A k \in 1..Len(body) :
                    body[k].tag \in NonContentTags =>
                        ~Contains(body[k].text, ContentOf(tool_call[r][1]))

(* ------------------------------------------------------------------ *)
(* C28                                                                 *)
(* ------------------------------------------------------------------ *)

\* C28, as claimed: the events of a run whose stream was closed or cancelled hold no
\* completed and no failed event.
C28_Original ==
    \A r \in Runs : pc[r] = "cancelled" => TerminalAt(r) = {}

\* where run r was suspended when its stream was closed or cancelled
CancelledAt(r) == trace[r][Len(trace[r])].what

\* C28: a run whose stream was closed or cancelled while it was suspended, at a yield
\* or in an await, yields nothing after that: every event it has was yielded before,
\* the cancellation is not turned into a failed event, and its events hold a terminal
\* event only when the run was suspended at the yield of that terminal event.
C28_CancelYieldsNothing ==
    \A r \in Runs :
        pc[r] = "cancelled" =>
            /\ trace[r][Len(trace[r])].op = "cancel"
            /\ Cardinality(EmitsAt(r)) = Len(events[r])
            /\ \A i \in TerminalAt(r) : i = Len(events[r])
            /\ TerminalAt(r) # {} <=> CancelledAt(r) \in {"y_completed", "y_failed"}

\* the stream was closed while the run awaited its analyzer, after three events and
\* more, none of them terminal
C28_Witness ==
    \E r \in Runs :
        /\ pc[r] = "cancelled"
        /\ CancelledAt(r) = "await_ana"
        /\ Len(events[r]) >= 4
        /\ TerminalAt(r) = {}

(* ------------------------------------------------------------------ *)
(* C29                                                                 *)
(* ------------------------------------------------------------------ *)

\* the steps of the pipeline that call the provider or an agent
PipelineSteps == {"analyze_rankings", "Investigation", "Analysis", "Optimization"}

\* the progress of the event that announces a step
AnnouncedBy(svc, step) ==
    CASE step = "analyze_rankings" -> 20
      [] step = "Investigation" -> 50
      [] step = "Analysis" -> IF svc = "investigate" THEN 70 ELSE 60
      [] step = "Optimization" -> IF svc = "investigate" THEN 85 ELSE 80

\* the positions in trace[r] at which a step of the pipeline, or a search, starts
StepCallsAt(r) ==
    {i \in 1..Len(trace[r]) :
        trace[r][i].op = "call" /\ trace[r][i].what \in PipelineSteps \cup {"search"}}

\* the number of events run r had yielded before position i of its trace
YieldedBefore(r, i) == Cardinality({j \in EmitsAt(r) : j < i})

\* C29: a run of the streamed pipeline starts a step (the ranking analysis and its
\* searches, the Investigation, Analysis or Optimization run) only when the consumer
\* has taken every event the run has yielded so far, the last of them being the
\* event that announces the step; a run whose consumer has not taken its newest event
\* is suspended at that yield and starts no call.
C29_DemandDriven ==
    \A r \in Runs :
        service[r] \in {"investigate", "optimize"} =>
            /\ \A i \in StepCallsAt(r) :
                  LET n == YieldedBefore(r, i)
                  IN  /\ n >= 1
                      /\ n <= Len(delivered[r])
                      /\ Ev(r, n).progress =
                            AnnouncedBy(service[r],
                                        IF trace[r][i].what = "search" THEN "analyze_rankings"
                                        ELSE trace[r][i].what)
            /\ Len(delivered[r]) < Len(events[r]) =>
                  /\ AtYield(r) \/ pc[r] = "cancelled"
                  /\ Len(delivered[r]) = Len(events[r]) - 1

\* the consumer has taken the six events of an investigate run and the optimizer runs
C29_Witness ==
    \E r \in Runs :
        /\ service[r] = "investigate"
        /\ pc[r] = "await_opt"
        /\ Len(events[r]) = 6
        /\ Len(delivered[r]) = 6
        /\ Cardinality(StepCallsAt(r)) >= 5

(* ------------------------------------------------------------------ *)
(* C30                                                                 *)
(* ------------------------------------------------------------------ *)

\* in this step the search run r awaited returned a response with no organic_results
NoOrganicReturned(r) ==
    /\ pc[r] = "search"
    /\ Len(trace'[r]) > Len(trace[r])
    /\ trace'[r][Len(trace[r]) + 1] = Return("search", kwidx[r])
    /\ "organic_results" \notin DOMAIN results'[r][1]

\* C30: when a search of analyze_rankings returns a response that has no
\* organic_results entry, the keyword gets the rank null, all_competitors stays as it
\* is, and the run goes on: to the search of the next keyword when there is one, else
\* to the progress 40 event; no failed event is yielded.
C30_NoOrganicIsNoFailure ==
    [][\A r \in Runs :
          NoOrganicReturned(r) =>
              /\ keywords[r][kwidx[r]] \in DOMAIN rankings'[r]
              /\ rankings'[r][keywords[r][kwidx[r]]] = None
              /\ all_competitors'[r] = all_competitors[r]
              /\ IF kwidx[r] < Len(keywords[r])
                 THEN /\ pc'[r] = "search"
                      /\ kwidx'[r] = kwidx[r] + 1
                      /\ trace'[r][Len(trace'[r])] = Call("search", kwidx[r] + 1)
                      /\ events'[r] = events[r]
                 ELSE /\ pc'[r] = "y40"
                      /\ Len(events'[r]) = Len(events[r]) + 1
                      /\ Payload(events'[r][Len(events'[r])]).progress = 40
                      /\ Payload(events'[r][Len(events'[r])]).status = "analyzing"]_vars

\* the provider answered the second of two keywords with an error report and no
\* organic_results: the keyword's rank is null, the competitors of the first search
\* are kept and the run is at its progress 40 event
C30_Witness ==
    \E r \in Runs :
        /\ pc[r] = "y40"
        /\ Len(keywords[r]) = 2
        /\ keywords[r][1] # keywords[r][2]
        /\ "organic_results" \notin DOMAIN results[r][1]
        /\ rankings[r][keywords[r][2]] = None
        /\ rankings[r][keywords[r][1]] # None
        /\ all_competitors[r] # {}
        /\ TerminalAt(r) = {}

(* ------------------------------------------------------------------ *)
(* C31                                                                 *)
(* ------------------------------------------------------------------ *)

\* the events of a run with no keyword: pending, the progress 20 event, failed
EmptyListEvents ==
    <<PendingEvent, RankingsStartEvent(<<>>), FailedEvent(UnboundLocalResults)>>

\* C31: with an empty keyword list analyze_rankings never returns: it searches
\* nothing and raises at its return statement, where results is not bound; so a run
\* of the generator with an empty keyword list yields pending, analyzing with
\* progress 20, then failed, and never the progress 40 event.
C31_EmptyKeywordsFail ==
    \A r \in Runs :
        (service[r] \in {"investigate", "optimize"} /\ keywords[r] = <<>>) =>
            /\ analysis_data[r] = None
            /\ results[r] = None
            /\ At(r, Return("analyze_rankings", 0)) = {}
            /\ \A i \in 1..Len(trace[r]) : trace[r][i].what # "search"
            /\ Len(events[r]) <= 3
            /\ \A i \in 1..Len(events[r]) : Ev(r, i) = EmptyListEvents[i]
            /\ At(r, Call("analyze_rankings", 0)) # {} =>
                  /\ At(r, Raise("analyze_rankings", 0, UnboundLocalResults)) # {}
                  /\ Len(events[r]) = 3

\* a run with no keyword has come to its end after its three events
C31_Witness ==
    \E r \in Runs :
        /\ keywords[r] = <<>>
        /\ pc[r] = "done"
        /\ Len(events[r]) = 3
        /\ Ev(r, 3).status = "failed"
        /\ Ev(r, 2).progress = 20

(* ------------------------------------------------------------------ *)
(* C32                                                                 *)
(* ------------------------------------------------------------------ *)

\* the agent's run of run r returns in this step
AgentRunReturns(r) ==
    /\ service[r] = "page_fetch"
    /\ pc[r] = "await_fetch"
    /\ At(r, Return("PageFetcher", 0)) = {}
    /\ trace'[r] # trace[r]
    /\ \E i \in 1..Len(trace'[r]) : trace'[r][i] = Return("PageFetcher", 0)

LogAt(log, op) == {i \in 1..Len(log) : log[i] = op}

\* get_db has run to its end for request r
SessionOver(r) == pc[r] = "u_done"

StrippedLines == [i \in DOMAIN SplitLines(Strip(p_text)) |-> Strip(SplitLines(Strip(p_text))[i])]

\* the lines the parser takes for items: they begin with a digit, a '-' or the bullet
QualifyingLines ==
    {i \in DOMAIN StrippedLines :
        /\ StrippedLines[i] # <<>>
        /\ \/ StrippedLines[i][1] \in Digits \cup {"-"}
           \/ StartsWith(StrippedLines[i], BulletLiteral(p_service))}

\* a line of enumerator characters only, such as "1." or "---"
OnlyEnumerator(line) == \A i \in 1..Len(line) : line[i] \in EnumeratorChars(p_service)

\* the qualifying lines with something left after the stripping
KeptLines == {i \in QualifyingLines : ~OnlyEnumerator(StrippedLines[i])}

\* the result is not the fallback
ParsedItems == p_out # None /\ p_out[1] # <<p_text>>

\* C34, as claimed: every item of a result other than the fallback is non-empty,
\* trimmed, and does not begin with a digit, '.', '-', ')' or a space.
C34_Original ==
    ParsedItems =>
        \A i \in 1..Len(p_out[1]) :
            LET item == p_out[1][i]
            IN  /\ item # <<>>
                /\ item[1] \notin Whitespace
                /\ item[Len(item)] \notin Whitespace
                /\ item[1] \notin Digits \cup {".", "-", ")", " "}

\* C34: every item of a result other than the fallback is non-empty and has no
\* leading or trailing whitespace, and it does not begin with a digit, '.', '-' or ')'
\* when the text holds no tab (no whitespace but spaces and line breaks); the
\* qualifying lines that are empty after the stripping are dropped, one item is
\* returned for each of the others, and the fallback when all are dropped.
C34_ItemsClean ==
    p_out # None =>
        /\ ParsedItems =>
              \A i \in 1..Len(p_out[1]) :
                  LET item == p_out[1][i]
                  IN  /\ item # <<>>
                      /\ item[1] \notin Whitespace
                      /\ item[Len(item)] \notin Whitespace
                      /\ "\t" \notin Range(p_text) =>
                            item[1] \notin Digits \cup {".", "-", ")", " "}
        /\ KeptLines = {} => p_out[1] = <<p_text>>
        /\ KeptLines # {} => (ParsedItems /\ Len(p_out[1]) = Cardinality(KeptLines))

\* a text with a line of enumerator characters only and a line with an item: the
\* first is dropped and the item returned
C34_Witness ==
    /\ ParsedItems
    /\ QualifyingLines \ KeptLines # {}
    /\ KeptLines # {}
    /\ Len(p_out[1]) = 1

====
